---- MODULE Spec2Model ----
(***************************************************************************)
(* Model of the component handler of material-design-lite                  *)
(* (src/src/mdlComponentHandler.js): the registry of component            *)
(* descriptors, the ledger of created components, the data-upgraded        *)
(* marker attribute of every element, and the upgrade / downgrade          *)
(* operations, including the calls that factories, upgrade callbacks and   *)
(* event listeners make back into the handler while an operation runs.     *)
(***************************************************************************)
EXTENDS Integers, Sequences, FiniteSets, TLC

\* ------------------------------------------------------------------ bounds

\* Largest number of components in createdComponents_ the model explores.
MaxInstances == 3
\* Largest number of handler calls nested inside factories / callbacks /
\* listeners of a running handler call.
MaxReentry == 1
\* Largest number of handler calls the environment code of one running call
\* (its listeners, factories and callbacks together) makes.
MaxNestedCalls == 1
\* Largest number of upgrade callbacks registered for one descriptor.
MaxCallbacks == 1
\* Largest number of util.componentHandler.bootMdl calls.
MaxBootCalls == 1
\* Largest number of upgrade callbacks of one descriptor where their order
\* is followed.
MaxOrderedCallbacks == 2
\* Largest number of showSnackbar calls.
MaxShows == 4
\* Largest number of cleanup_ timers pending at once.
MaxCleanups == 3

\* --------------------------------------------------------------- the world

\* classAsString values the environment uses; "D" is never registered.
Names == {"A", "B", "C", "D"}
\* The classes whose factory may throw.
Throwing == {"B"}
\* The classes whose prototype defines a downgrade method.
DefinesDowngrade == {"A"}
\* The document: e1 is the parent of e2.
Elements == {"e1", "e2"}
classListOf == [e \in Elements |-> IF e = "e1" THEN {"js-a", "js-b"} ELSE {"js-a"}]
childrenOf == [e \in Elements |-> IF e = "e1" THEN <<"e2">> ELSE <<>>]
\* Document order, as querySelectorAll returns it.
documentOrder == <<"e1", "e2">>

\* JavaScript's undefined, the value false returned by findRegisteredClass_,
\* and the null returned by getAttribute for a missing attribute.
Undefined == "undefined"
False == "false"
Null == <<"null">>
Comma == ","

\* The upgradeElement(element, optJsClass) calls the environment makes.
UpgradeCalls ==
  { <<"e1", Undefined>>, <<"e1", "B">>, <<"e1", "D">>, <<"e2", Undefined>> }

\* The classes the environment registers upgrade callbacks for.
CallbackNames == {"A"}

\* The configs handed to componentHandler.register by the environment.
\* widget is Undefined when the config has no widget field.
\* ownsConfigProperty: the constructor's prototype has its own
\* mdlComponentConfigInternal_ property.
Config(classAsString, cssClass, widget, ownsConfigProperty) ==
  [ classAsString |-> classAsString, cssClass |-> cssClass, widget |-> widget,
    ownsConfigProperty |-> ownsConfigProperty ]

Configs ==
  { Config("A", "js-a", Undefined, FALSE),
    Config("B", "js-b", False, FALSE),
    Config("C", "js-c", False, FALSE),
    Config("C", "js-a", "true", FALSE),
    Config("B", "js-c", "true", TRUE) }

\* ---------------------------------------------------- strings and arrays

\* A string is a sequence of tokens; a component name is one token and the
\* separator "," is one token.  The empty string is << >>.
Str(name) == <<name>>

RECURSIVE IndexOfFrom(_, _, _)
IndexOfFrom(list, x, k) ==
  IF k > Len(list) THEN -1
  ELSE IF list[k] = x THEN k - 1
  ELSE IndexOfFrom(list, x, k + 1)

\* Array.prototype.indexOf: zero-based index of the first match, or -1.
IndexOf(list, x) == IndexOfFrom(list, x, 1)

\* Array.prototype.splice(start, 1): a negative start counts from the end.
Splice1(list, start) ==
  LET len == Len(list)
      s0 == IF start < 0 THEN (IF len + start < 0 THEN 0 ELSE len + start)
            ELSE (IF start > len THEN len ELSE start)
  IN  IF s0 >= len THEN list
      ELSE SubSeq(list, 1, s0) \o SubSeq(list, s0 + 2, len)

RECURSIVE Split(_)
\* String.prototype.split(','): the pieces between the separators; the
\* empty string splits into one empty piece.
Split(s) ==
  LET k == IndexOf(s, Comma)
  IN  IF k = -1 THEN <<s>>
      ELSE <<SubSeq(s, 1, k)>> \o Split(SubSeq(s, k + 2, Len(s)))

RECURSIVE Join(_)
\* Array.prototype.join(','): the empty array joins to the empty string.
Join(list) ==
  IF Len(list) = 0 THEN <<>>
  ELSE IF Len(list) = 1 THEN list[1]
  ELSE list[1] \o <<Comma>> \o Join(Tail(list))

RECURSIVE Reverse(_)
Reverse(list) ==
  IF Len(list) = 0 THEN <<>> ELSE Reverse(Tail(list)) \o <<Head(list)>>

SeqToSet(list) == {list[k] : k \in 1..Len(list)}

\* Property access on an object: undefined when the object has no such key.
Field(obj, key) == IF key \in DOMAIN obj THEN obj[key] ELSE Undefined

\* ------------------------------------------------------------------- state

\* The value of ret when the last call left nothing to record.
NoCall == [op |-> "none"]

VARIABLES
  registeredComponents_,  \* the registry: sequence of ComponentConfig
  createdComponents_,     \* the ledger: sequence of created components
  dataUpgraded,           \* element -> value of its data-upgraded attribute
  expando,                \* element -> name -> id of element[name], or 0
  stack,                  \* the running handler calls, innermost last
  ret,                    \* the handler call that returned or threw last
  regOrder,               \* classNames in the order register accepted them
  boot,                   \* the boot sequence: see BootInit
  children,               \* element -> its child elements, in order
  snackbar                \* one MaterialSnackbar and its timers: SnackbarInit

\* The capabilities the load handler tests for, lines 447-449
\* (addEventListener, the fourth, attached the handler itself).
Capabilities == {"classList", "querySelector", "forEach"}

\* The boot sequence before bootMdl is called:
\* listeners - the load listeners bootMdl has attached to the window;
\* fired - the window's load event has fired; pending - the listeners of
\* the fired event still to run; missing - the capabilities the browser
\* lacks; mdlJs - the mdl-js class is on the document element;
\* upgrades - the upgradeAllRegistered calls the load listeners made;
\* dummies - upgradeElement and register were replaced by empty functions.
BootInit ==
  [ listeners |-> 0, fired |-> FALSE, pending |-> 0, missing |-> {},
    mdlJs |-> FALSE, upgrades |-> 0, dummies |-> FALSE ]

\* A MaterialSnackbar as its constructor leaves it (snackbar.js, lines
\* 73-139), with the timers it has set.  A notification is the number of
\* the showSnackbar call that brought it; 0 stands for null and ''.
\* active_, message_, timeoutID_, queuedNotifications_ - the fields;
\* textContent - the text of the message element; activeClass - the
\* element has the mdl-snackbar--active class; timeouts - the pending
\* timers of displaySnackbar_, each named by the notification it was set
\* for; cleanups - the pending timers of cleanup_, oldest first, each with
\* the notification that was displayed when it was set; shows - the
\* showSnackbar calls made; displayed - the notifications displayed so far.
SnackbarInit ==
  [ active_ |-> FALSE, message_ |-> 0, timeoutID_ |-> 0,
    queuedNotifications_ |-> <<>>, textContent |-> 0, activeClass |-> FALSE,
    timeouts |-> {}, cleanups |-> <<>>, shows |-> 0, displayed |-> <<>> ]

vars == <<registeredComponents_, createdComponents_, dataUpgraded, expando,
          stack, ret, regOrder, boot, children, snackbar>>

Init ==
  /\ registeredComponents_ = <<>>
  /\ createdComponents_ = <<>>
  /\ dataUpgraded = [e \in Elements |-> Null]
  /\ expando = [e \in Elements |-> [n \in Names |-> 0]]
  /\ stack = <<>>
  /\ ret = NoCall
  /\ regOrder = <<>>
  /\ boot = BootInit
  /\ children = childrenOf
  /\ snackbar = SnackbarInit

\* ---------------------------------------------------------------- registry

RECURSIVE FindIndexFrom(_, _, _)
FindIndexFrom(reg, name, k) ==
  IF k > Len(reg) THEN 0
  ELSE IF reg[k].className = name THEN k
  ELSE FindIndexFrom(reg, name, k + 1)

\* findRegisteredClass_(name): the position of the first descriptor whose
\* className is name, 0 when the function returns false.
findRegisteredClass_(reg, name) == FindIndexFrom(reg, name, 1)

\* findRegisteredClass_(name, optReplace): the registry after the call.
findRegisteredClassReplace_(reg, name, optReplace) ==
  LET k == findRegisteredClass_(reg, name)
  IN  IF k = 0 THEN reg ELSE [reg EXCEPT ![k] = optReplace]

\* The descriptor object a className refers to (descriptors are shared
\* objects: the registry, the candidates of a running upgradeElement and the
\* created components all point at the same one).
Descriptor(reg, name) == reg[findRegisteredClass_(reg, name)]

\* register, lines 264-278: the ComponentConfig built from the public config.
NewConfig(config) ==
  [ className |-> config.classAsString,
    cssClass  |-> config.cssClass,
    widget    |-> IF config.widget = Undefined THEN "true" ELSE config.widget,
    callbacks |-> <<>> ]

RECURSIVE RegisterCheckCssOnlyFrom(_, _, _)
\* The forEach of register without the className test of lines 284-286.
RegisterCheckCssOnlyFrom(reg, newConfig, k) ==
  IF k > Len(reg) THEN ""
  ELSE IF reg[k].cssClass = newConfig.cssClass THEN "cssClass"
  ELSE RegisterCheckCssOnlyFrom(reg, newConfig, k + 1)

RECURSIVE RegisterCheckNameOnlyFrom(_, _, _)
\* The forEach of register without the cssClass test of lines 281-283.
RegisterCheckNameOnlyFrom(reg, newConfig, k) ==
  IF k > Len(reg) THEN ""
  ELSE IF reg[k].className = newConfig.className THEN "className"
  ELSE RegisterCheckNameOnlyFrom(reg, newConfig, k + 1)

RECURSIVE RegisterCheckFrom(_, _, _)
\* register, lines 280-287: the error thrown by the forEach, "" when none.
RegisterCheckFrom(reg, newConfig, k) ==
  IF k > Len(reg) THEN ""
  ELSE IF reg[k].cssClass = newConfig.cssClass THEN "cssClass"
  ELSE IF reg[k].className = newConfig.className THEN "className"
  ELSE RegisterCheckFrom(reg, newConfig, k + 1)

\* register without any of its checks.
RegisterErrorNone(reg, config) == ""

\* register, lines 280-294: the error register throws, "" when none.
RegisterError(reg, config) ==
  LET collision == RegisterCheckFrom(reg, NewConfig(config), 1)
  IN  IF collision # "" THEN collision
      ELSE IF config.ownsConfigProperty THEN "mdlComponentConfigInternal_"
      ELSE ""

\* componentHandler.register(config), called from top level.
Register(config) ==
  /\ stack = <<>>
  /\ LET newConfig == NewConfig(config)
         error == RegisterError(registeredComponents_, config)
         found == findRegisteredClass_(registeredComponents_, config.classAsString)
     IN  /\ registeredComponents_' =
              IF error # "" THEN registeredComponents_
              ELSE IF found # 0
                THEN findRegisteredClassReplace_(registeredComponents_,
                                                 config.classAsString, newConfig)
                ELSE Append(registeredComponents_, newConfig)
         /\ regOrder' = IF error = "" /\ found = 0
                          THEN Append(regOrder, newConfig.className)
                          ELSE regOrder
         /\ ret' = [op |-> "register", config |-> config, error |-> error]
  /\ UNCHANGED <<createdComponents_, dataUpgraded, expando, stack, boot, children, snackbar>>

\* componentHandler.registerUpgradedCallback(jsClass, callback), top level,
\* while the class has fewer than max callbacks.
RegisterUpgradedCallbackOf(jsClass, callback, max) ==
  /\ stack = <<>>
  /\ LET k == findRegisteredClass_(registeredComponents_, jsClass)
     IN  /\ k # 0 => Len(registeredComponents_[k].callbacks) < max
         /\ registeredComponents_' =
              IF k = 0 THEN registeredComponents_
              ELSE [registeredComponents_ EXCEPT
                      ![k].callbacks = Append(@, callback)]
         /\ ret' = NoCall
  /\ UNCHANGED <<createdComponents_, dataUpgraded, expando, stack, regOrder, boot, children, snackbar>>

RegisterUpgradedCallback(jsClass) ==
  RegisterUpgradedCallbackOf(jsClass, "cb", MaxCallbacks)

\* ----------------------------------------------------------------- marker

\* getUpgradedListOfElement_ with an empty array for a missing attribute.
GetUpgradedListNoEmptyEntry(dataUpgradedValue) ==
  IF dataUpgradedValue = Null THEN <<>> ELSE Split(dataUpgradedValue)

\* getUpgradedListOfElement_(element), given the attribute's value.
getUpgradedListOfElement_(dataUpgradedValue) ==
  IF dataUpgradedValue = Null THEN << <<>> >> ELSE Split(dataUpgradedValue)

\* isElementUpgraded_ with a lookup that never finds the name.
IsElementUpgradedNever(dataUpgradedValue, jsClass) == FALSE

\* isElementUpgraded_(element, jsClass), given the attribute's value.
isElementUpgraded_(dataUpgradedValue, jsClass) ==
  IndexOf(getUpgradedListOfElement_(dataUpgradedValue), Str(jsClass)) # -1

\* ------------------------------------------------------------------- frames

\* A frame of `stack` is one running handler call.  A call made by the
\* environment (top level, or from a factory, callback or listener) has
\* byEnv = TRUE; a call made by a handler loop has byEnv = FALSE.
UEFrame(element, optJsClass, byEnv, succ, prev) ==
  [ op |-> "upgradeElement", byEnv |-> byEnv, pc |-> "upgrading",
    element |-> element, optJsClass |-> optJsClass,
    defaultPrevented |-> FALSE,
    upgradedList |-> <<>>, classesToUpgrade |-> <<>>, i |-> 0, j |-> 0, m |-> 0,
    instance |-> 0,
    \* bookkeeping of what this call did: the names it marked, whether its
    \* environment code called the handler, whether a component was taken
    \* down since it last marked a name; succ: the call repeats the call
    \* that returned just before it, which applied the names prev
    applied |-> <<>>, nested |-> FALSE, sawDowngrade |-> FALSE, calls |-> 0,
    succ |-> succ, prev |-> prev,
    \* the components this call pushed onto the ledger and the
    \* 'mdl-componentupgraded' events it dispatched
    made |-> 0, events |-> 0,
    \* the upgrade callbacks invoked so far for the current candidate
    called |-> <<>> ]

UEsFrame(elements, byEnv) ==
  [ op |-> "upgradeElements", byEnv |-> byEnv, pc |-> "next",
    elements |-> elements, i |-> 1,
    \* bookkeeping: the elements upgradeElement was called on by this call
    \* and by the calls it made on children, in call order
    visited |-> <<>> ]

\* One upgradeElement call of upgradeElements: the element, and how many
\* children it had when the call was made.
Visit(element) == [element |-> element, childrenBefore |-> Len(children[element])]

\* upgradeElements without the recursion of lines 247-249.
ChildrenToVisitNone(element) == <<>>

\* upgradeElements, lines 247-249: element.children, read once
\* upgradeElement(element) has returned.
ChildrenToVisit(element) == children[element]

\* What a returned upgradeElements call did.
UEsResult(f) == [op |-> "upgradeElements", visited |-> f.visited]

\* cancelled: a listener cancelled an upgradeElement call of this call;
\* before: the data-upgraded attributes when the call began.
UDomFrame(byEnv, before) ==
  [ op |-> "upgradeDom", byEnv |-> byEnv, pc |-> "next", i |-> 1,
    cancelled |-> FALSE, before |-> before ]

UDomClassFrame(jsClass, cssClass) ==
  [ op |-> "upgradeDomClass", byEnv |-> FALSE, pc |-> "next",
    jsClass |-> jsClass, cssClass |-> cssClass, n |-> 1 ]

UAllFrame(byEnv, before) ==
  [ op |-> "upgradeAllRegistered", byEnv |-> byEnv, pc |-> "next", n |-> 1,
    passes |-> <<>>, cancelled |-> FALSE, before |-> before ]

DownFrame(node, components, byEnv, before) ==
  [ op |-> "downgradeElements", byEnv |-> byEnv, pc |-> "next",
    node |-> node, components |-> components, k |-> 1, calls |-> 0,
    \* bookkeeping: the 'mdl-componentdowngraded' events dispatched so far
    \* and the node's attribute when the call began
    events |-> 0, before |-> before,
    \* and the calls made so far of a component's own downgrade method
    teardowns |-> 0 ]

\* The frames at which code of the environment is running: a listener of a
\* dispatched event, a factory, or an upgrade callback.
AtEnvPoint(f) ==
  \/ f.op = "upgradeElement"
  \/ f.op = "downgradeElements" /\ f.pc = "downgraded"

Top(st) == st[Len(st)]
Pop(st) == SubSeq(st, 1, Len(st) - 1)
SetTop(st, f) == [st EXCEPT ![Len(st)] = f]

\* document.querySelectorAll('.' + cssClass), in document order.
RECURSIVE QuerySelectorAllFrom(_, _)
QuerySelectorAllFrom(cssClass, k) ==
  IF k > Len(documentOrder) THEN <<>>
  ELSE (IF cssClass \in classListOf[documentOrder[k]]
          THEN <<documentOrder[k]>> ELSE <<>>)
       \o QuerySelectorAllFrom(cssClass, k + 1)

\* querySelector in place of querySelectorAll: the first match only.
querySelectorFirst(cssClass) ==
  IF QuerySelectorAllFrom(cssClass, 1) = <<>> THEN <<>>
  ELSE <<Head(QuerySelectorAllFrom(cssClass, 1))>>

querySelectorAll(cssClass) == QuerySelectorAllFrom(cssClass, 1)

\* -------------------------------------------------------------- downgrade

\* deconstructComponentInternal(component), lines 352-358: the ledger and
\* the marker after the component was taken out.
DeconstructLedger(cc, component) ==
  Splice1(cc, IndexOf(cc, component))

\* deconstructComponentInternal with splice(0, 1): the first entry goes.
DeconstructMarkerFirst(dataUpgradedValue, component) ==
  Join(Splice1(Split(dataUpgradedValue), 0))

DeconstructMarker(dataUpgradedValue, component) ==
  LET upgrades == Split(dataUpgradedValue)
      componentPlace ==
        IndexOf(upgrades,
                Str(Field(component.mdlComponentConfigInternal_, "classAsString")))
  IN  Join(Splice1(upgrades, componentPlace))

\* deconstructComponentInternal(component), lines 351-363: the number of
\* downgrade-method calls after the component was taken out.  The body
\* reads the component's element_ and config and calls nothing on it.
DeconstructTeardowns(teardowns, component) == teardowns

\* element[name] of a component that has left the ledger: it never comes
\* back, and the handler tells no two such components apart.
Gone == -1

Live(cc, element, name, id) ==
  \E k \in 1..Len(cc) :
    /\ cc[k].element_ = element /\ cc[k].id = id
    /\ cc[k].mdlComponentConfigInternal_.className = name

\* The back-references of the elements, given the ledger.
Expando(ex, cc) ==
  [e \in Elements |-> [n \in Names |->
     IF ex[e][n] = 0 \/ Live(cc, e, n, ex[e][n]) THEN ex[e][n] ELSE Gone]]

\* ------------------------------------------------- running a handler call

\* A state of the handler while an action is computed.
Mk(st, cc, du, rt) == [st |-> st, cc |-> cc, du |-> du, rt |-> rt]

\* ret records the calls made from top level: the result r of the call on top
\* of s.st when it returns, and when its exception reaches the top level.
Result(s, r) == IF Len(s.st) = 1 THEN r ELSE s.rt

\* An exception leaves the throwing call and every handler loop that called
\* it, up to the environment code (or the top level) that made the call.
RECURSIVE Unwind(_)
Unwind(st) ==
  IF Len(st) = 0 \/ AtEnvPoint(Top(st)) THEN st ELSE Unwind(Pop(st))

\* Every running upgradeDom and upgradeAllRegistered call has now had one of
\* its upgradeElement calls cancelled.
SawCancel(st) ==
  [k \in 1..Len(st) |->
     IF st[k].op \in {"upgradeDom", "upgradeAllRegistered"}
       THEN [st[k] EXCEPT !.cancelled = TRUE]
       ELSE st[k]]

\* What a returned downgradeElements call did.
DownResult(f) ==
  IF f.calls = 0
    THEN [ op |-> "downgradeElements", nested |-> FALSE, node |-> f.node,
           instances |-> Len(f.components), events |-> f.events,
           before |-> f.before ]
    ELSE [ op |-> "downgradeElements", nested |-> TRUE ]

\* Every running upgradeElement call has now seen a component taken down.
SawDowngrade(st) ==
  [k \in 1..Len(st) |->
     IF st[k].op = "upgradeElement" THEN [st[k] EXCEPT !.sawDowngrade = TRUE]
     ELSE st[k]]

\* The stack once the upgradeElements call on children has returned: the
\* calling upgradeElements frame has the calls made for its children too.
Returned(st, visited) ==
  IF Len(st) > 0 /\ Top(st).op = "upgradeElements"
    THEN SetTop(st, [Top(st) EXCEPT !.visited = @ \o visited])
    ELSE st

\* The exception is swallowed: the caller sees no outcome of the call.
ThrownSwallowed(s, r) == s.rt

\* What the caller sees when an exception leaves the handler: the outcome r
\* once it has reached client code, nothing new while a listener, factory or
\* callback of an outer call is still to catch it or pass it on.
Thrown(s, r) == IF Len(Unwind(Pop(s.st))) = 0 THEN r ELSE s.rt

RECURSIVE Run(_, _)
\* Runs the innermost call until code of the environment runs (an event
\* listener, a factory, a callback) or the outermost call has returned.
Run(reg, s) ==
  IF Len(s.st) = 0 THEN s
  ELSE LET f == Top(s.st) IN
  CASE f.op = "upgradeElement" -> s
    [] f.op = "upgradeElements" ->
         IF f.pc = "next" THEN
           IF f.i > Len(f.elements)
             THEN Run(reg, Mk(Returned(Pop(s.st), f.visited), s.cc, s.du,
                              Result(s, UEsResult(f))))
             ELSE Mk(Append(SetTop(s.st, [f EXCEPT !.pc = "element",
                                                   !.visited =
                                                     Append(@, Visit(f.elements[f.i]))]),
                            UEFrame(f.elements[f.i], Undefined, FALSE, FALSE, {})),
                     s.cc, s.du, s.rt)
         ELSE IF f.pc = "element" /\ Len(ChildrenToVisit(f.elements[f.i])) > 0 THEN
           Run(reg, Mk(Append(SetTop(s.st, [f EXCEPT !.pc = "children"]),
                              UEsFrame(ChildrenToVisit(f.elements[f.i]), FALSE)),
                       s.cc, s.du, s.rt))
         ELSE
           Run(reg, Mk(SetTop(s.st, [f EXCEPT !.pc = "next", !.i = f.i + 1]),
                       s.cc, s.du, s.rt))
    [] f.op = "upgradeDom" ->
         IF f.pc = "next" THEN
           IF f.i > Len(reg)
             THEN Run(reg, Mk(Pop(s.st), s.cc, s.du,
                              Result(s, [op |-> "upgradeDom",
                                         cancelled |-> f.cancelled,
                                         before |-> f.before])))
             ELSE Run(reg, Mk(Append(SetTop(s.st, [f EXCEPT !.pc = "called"]),
                                     UDomClassFrame(reg[f.i].className,
                                                    reg[f.i].cssClass)),
                              s.cc, s.du, s.rt))
         ELSE
           Run(reg, Mk(SetTop(s.st, [f EXCEPT !.pc = "next", !.i = f.i + 1]),
                       s.cc, s.du, s.rt))
    [] f.op = "upgradeDomClass" ->
         LET elements == querySelectorAll(f.cssClass) IN
         IF f.pc = "next" THEN
           IF f.n > Len(elements)
             THEN Run(reg, Mk(Pop(s.st), s.cc, s.du, s.rt))
             ELSE Mk(Append(SetTop(s.st, [f EXCEPT !.pc = "called"]),
                            UEFrame(elements[f.n], f.jsClass, FALSE, FALSE, {})),
                     s.cc, s.du, s.rt)
         ELSE
           Run(reg, Mk(SetTop(s.st, [f EXCEPT !.pc = "next", !.n = f.n + 1]),
                       s.cc, s.du, s.rt))
    [] f.op = "upgradeAllRegistered" ->
         IF f.pc = "next" THEN
           IF f.n > Len(reg)
             THEN Run(reg, Mk(Pop(s.st), s.cc, s.du,
                              Result(s, [op |-> "upgradeAllRegistered",
                                         passes |-> f.passes,
                                         cancelled |-> f.cancelled,
                                         before |-> f.before])))
             ELSE Run(reg, Mk(Append(SetTop(s.st,
                                       [f EXCEPT !.pc = "called",
                                                 !.passes = Append(@, reg[f.n].className)]),
                                     UDomClassFrame(reg[f.n].className,
                                                    reg[f.n].cssClass)),
                              s.cc, s.du, s.rt))
         ELSE
           Run(reg, Mk(SetTop(s.st, [f EXCEPT !.pc = "next", !.n = f.n + 1]),
                       s.cc, s.du, s.rt))
    [] f.op = "downgradeElements" ->
         IF f.pc = "downgraded" THEN s
         ELSE IF f.k > Len(f.components)
           THEN Run(reg, Mk(Pop(s.st), s.cc, s.du,
                            Result(s, DownResult(f))))
         ELSE LET component == f.components[f.k] IN
           IF s.du[component.element_] = Null
             THEN \* null.split(',') is a TypeError
                  Mk(SawDowngrade(Unwind(Pop(s.st))),
                     DeconstructLedger(s.cc, component), s.du,
                     Thrown(s, [op |-> "downgradeElements", outcome |-> "threw"]))
             ELSE Mk(SawDowngrade(SetTop(s.st,
                       [f EXCEPT !.pc = "downgraded",
                                 !.events = @ + 1,
                                 !.teardowns = DeconstructTeardowns(@, component)])),
                     DeconstructLedger(s.cc, component),
                     [s.du EXCEPT ![component.element_] =
                        DeconstructMarker(s.du[component.element_], component)],
                     s.rt)

\* ---------------------------------------------------------- upgradeElement

RECURSIVE ScanFromNewestFirst(_, _, _, _, _)
\* The scan of lines 186-194 with unshift in place of push.
ScanFromNewestFirst(reg, classList, dataUpgradedValue, k, classesToUpgrade) ==
  IF k > Len(reg) THEN classesToUpgrade
  ELSE ScanFromNewestFirst(reg, classList, dataUpgradedValue, k + 1,
         IF /\ reg[k].cssClass \in classList
            /\ IndexOf(classesToUpgrade, reg[k].className) = -1
            /\ ~isElementUpgraded_(dataUpgradedValue, reg[k].className)
           THEN <<reg[k].className>> \o classesToUpgrade
           ELSE classesToUpgrade)

RECURSIVE ScanFrom(_, _, _, _, _)
\* upgradeElement, lines 186-194: the registered components that match the
\* element's classList and are not yet in its marker, in registry order.
ScanFrom(reg, classList, dataUpgradedValue, k, classesToUpgrade) ==
  IF k > Len(reg) THEN classesToUpgrade
  ELSE ScanFrom(reg, classList, dataUpgradedValue, k + 1,
         IF /\ reg[k].cssClass \in classList
            /\ IndexOf(classesToUpgrade, reg[k].className) = -1
            /\ ~isElementUpgraded_(dataUpgradedValue, reg[k].className)
           THEN Append(classesToUpgrade, reg[k].className)
           ELSE classesToUpgrade)

\* The candidates when an optJsClass that is not registered is left out
\* instead of being pushed as false.
ClassesToUpgradeSkipUnknown(reg, element, optJsClass, dataUpgradedValue) ==
  IF optJsClass = Undefined
    THEN ScanFrom(reg, classListOf[element], dataUpgradedValue, 1, <<>>)
  ELSE IF /\ ~isElementUpgraded_(dataUpgradedValue, optJsClass)
          /\ findRegisteredClass_(reg, optJsClass) # 0
    THEN <<optJsClass>>
  ELSE <<>>

\* upgradeElement, lines 181-197: the candidates, each a className standing
\* for its descriptor object, or False where findRegisteredClass_ found none.
ClassesToUpgrade(reg, element, optJsClass, dataUpgradedValue) ==
  IF optJsClass = Undefined
    THEN ScanFrom(reg, classListOf[element], dataUpgradedValue, 1, <<>>)
  ELSE IF ~isElementUpgraded_(dataUpgradedValue, optJsClass)
    THEN <<IF findRegisteredClass_(reg, optJsClass) = 0 THEN False ELSE optJsClass>>
  ELSE <<>>

\* The component objects of class name on element that are still referenced
\* somewhere: by the ledger, by a running call, or by the element itself.
RECURSIVE FrameIds(_, _, _)
FrameIds(st, element, name) ==
  IF Len(st) = 0 THEN {}
  ELSE LET f == Top(st) IN
       FrameIds(Pop(st), element, name) \cup
       (IF f.op = "downgradeElements"
          THEN {f.components[k].id : k \in
                  {k \in 1..Len(f.components) :
                     /\ f.components[k].element_ = element
                     /\ f.components[k].mdlComponentConfigInternal_.className = name}}
        ELSE IF /\ f.op = "upgradeElement" /\ f.element = element
                /\ f.pc \in {"callback", "upgraded"}
                /\ f.classesToUpgrade[f.i] = name
          THEN {f.instance}
        ELSE {})

UsedIds(st, cc, element, name) ==
  {cc[k].id : k \in {k \in 1..Len(cc) :
                       /\ cc[k].element_ = element
                       /\ cc[k].mdlComponentConfigInternal_.className = name}}
    \cup FrameIds(st, element, name)

\* The identity of a newly constructed component object: objects of the same
\* class on the same element are told apart by a serial number.
NewId(st, cc, ex, element, name) ==
  CHOOSE id \in 1..(Cardinality(UsedIds(st, cc, element, name)) + 1) :
    /\ id \notin UsedIds(st, cc, element, name)
    /\ \A other \in 1..(id - 1) : other \in UsedIds(st, cc, element, name)

\* What a returned or failed upgradeElement call did.
UEResult(f, outcome) ==
  IF ~f.nested
    THEN [ op |-> "upgradeElement", outcome |-> outcome, nested |-> FALSE,
           element |-> f.element, optJsClass |-> f.optJsClass,
           applied |-> SeqToSet(f.applied),
           succ |-> f.succ, prev |-> f.prev,
           made |-> f.made, events |-> f.events ]
    ELSE [ op |-> "upgradeElement", outcome |-> outcome, nested |-> TRUE ]

\* Line 205 left out: the name is pushed but the attribute is not written.
SetAttributeSkipped(du, element, upgradedList) == du

\* upgradeElement, line 205: element.setAttribute('data-upgraded', ...).
SetAttribute(du, element, upgradedList) ==
  [du EXCEPT ![element] = Join(upgradedList)]

\* upgradeElement, lines 200-205 and 218-221: the head of the loop over the
\* candidates, for the frame f on top of s.st with f.i the next candidate.
LoopStep(reg, s, f) ==
  IF f.i > Len(f.classesToUpgrade)
    THEN Run(reg, Mk(Pop(s.st), s.cc, s.du, Result(s, UEResult(f, "ok"))))
  ELSE LET registeredClass == f.classesToUpgrade[f.i] IN
    IF registeredClass = False
      THEN Mk(Unwind(Pop(s.st)), s.cc, s.du, Thrown(s, UEResult(f, "threw")))
    ELSE LET upgradedList == Append(f.upgradedList, Str(registeredClass)) IN
      Mk(SetTop(s.st, [f EXCEPT !.pc = "factory",
                                !.upgradedList = upgradedList,
                                !.applied = Append(@, registeredClass),
                                !.sawDowngrade = FALSE]),
         s.cc,
         SetAttribute(s.du, f.element, upgradedList),
         s.rt)

Depth(st) == Cardinality({k \in 1..Len(st) : st[k].byEnv})

\* The environment may call the handler from top level, and from a factory,
\* a callback or a listener of a running call.  The model explores the
\* calls nested in upgradeElement and downgradeElements calls that the
\* environment itself made.
CanCall ==
  \/ stack = <<>>
  \/ /\ stack # <<>>
     /\ \A k \in 1..Len(stack) : stack[k].byEnv /\ AtEnvPoint(stack[k])
     /\ Depth(stack) <= MaxReentry
     /\ Top(stack).calls < MaxNestedCalls

\* The stack as a call made by the environment finds it: the frames whose
\* environment code is running have now made a nested call.
Calling ==
  IF stack = <<>> THEN stack
  ELSE SetTop(stack, IF Top(stack).op = "upgradeElement"
                       THEN [Top(stack) EXCEPT !.nested = TRUE, !.calls = @ + 1]
                       ELSE [Top(stack) EXCEPT !.calls = @ + 1])

\* A call from top level starts with no call recorded as the last one.
Entering == IF stack = <<>> THEN NoCall ELSE ret

Commit(s) ==
  /\ stack' = s.st
  /\ createdComponents_' = s.cc
  /\ dataUpgraded' = s.du
  /\ expando' = Expando(expando, s.cc)
  /\ ret' = s.rt

\* componentHandler.upgradeElement(element, optJsClass) is called; the
\* 'mdl-componentupgrading' event is dispatched.
UpgradeElement(element, optJsClass) ==
  /\ CanCall
  /\ LET succ == /\ stack = <<>>
                 /\ ret.op = "upgradeElement"
                 /\ ~ret.nested
                 /\ ret.element = element /\ ret.optJsClass = optJsClass
     IN  stack' = Append(Calling,
                         UEFrame(element, optJsClass, TRUE, succ,
                                 IF succ THEN ret.applied ELSE {}))
  /\ ret' = Entering
  /\ UNCHANGED <<registeredComponents_, createdComponents_, dataUpgraded,
                 expando, regOrder, boot, children, snackbar>>

\* A listener of 'mdl-componentupgrading' calls preventDefault().
PreventDefault ==
  /\ stack # <<>>
  /\ Top(stack).op = "upgradeElement" /\ Top(stack).pc = "upgrading"
  /\ ~Top(stack).defaultPrevented
  /\ stack' = SetTop(stack, [Top(stack) EXCEPT !.defaultPrevented = TRUE])
  /\ UNCHANGED <<registeredComponents_, createdComponents_, dataUpgraded,
                 expando, ret, regOrder, boot, children, snackbar>>

\* Line 177 with the result of dispatchEvent ignored.
CancelledNever(f) == FALSE

\* upgradeElement, line 177.
Cancelled(f) == f.defaultPrevented

\* dispatchEvent(upgradingEv) returns: lines 177-205.
UpgradingDone ==
  /\ stack # <<>>
  /\ Top(stack).op = "upgradeElement" /\ Top(stack).pc = "upgrading"
  /\ LET f == Top(stack)
         s == Mk(stack, createdComponents_, dataUpgraded, ret)
     IN  IF Cancelled(f)
           THEN Commit(Run(registeredComponents_,
                           Mk(SawCancel(Pop(stack)), createdComponents_,
                              dataUpgraded,
                              Result(s, UEResult(f, "cancelled")))))
           ELSE Commit(LoopStep(registeredComponents_, s,
                  [f EXCEPT
                     !.upgradedList = getUpgradedListOfElement_(dataUpgraded[f.element]),
                     !.classesToUpgrade =
                        ClassesToUpgrade(registeredComponents_, f.element,
                                         f.optJsClass, dataUpgraded[f.element]),
                     !.i = 1]))
  /\ UNCHANGED <<registeredComponents_, regOrder, boot, children, snackbar>>

\* Lines 214-217 without the test of registeredClass.widget.
AfterCallbacksAlways(reg, ex, f) ==
  [ex EXCEPT ![f.element][f.classesToUpgrade[f.i]] = f.instance]

\* upgradeElement, lines 214-224, for the frame f whose callbacks are done:
\* the element's back-reference, then 'mdl-componentupgraded' is dispatched.
AfterCallbacks(reg, ex, f) ==
  IF Descriptor(reg, f.classesToUpgrade[f.i]).widget # False
    THEN [ex EXCEPT ![f.element][f.classesToUpgrade[f.i]] = f.instance]
    ELSE ex

\* Line 208 left out: the new component is not pushed onto the ledger.
PushCreatedSkipped(cc, instance) == cc

\* upgradeElement, line 208: createdComponents_.push(instance).
PushCreated(cc, instance) == Append(cc, instance)

\* The loop of lines 210-212 from its last callback to its first.
NextCallbackReversed(callbacks, j) == callbacks[Len(callbacks) + 1 - j]

\* registeredClass.callbacks[j] of line 211 (j counted from 1).
NextCallback(callbacks, j) == callbacks[j]

\* The factory returns: lines 206-224.
FactoryReturn ==
  /\ stack # <<>>
  /\ Top(stack).op = "upgradeElement" /\ Top(stack).pc = "factory"
  /\ Len(createdComponents_) < MaxInstances
  /\ LET f == Top(stack)
         registeredClass == Descriptor(registeredComponents_, f.classesToUpgrade[f.i])
         instance == [ id |-> NewId(stack, createdComponents_, expando,
                                    f.element, registeredClass.className),
                       element_ |-> f.element,
                       mdlComponentConfigInternal_ |->
                         [ className |-> registeredClass.className,
                           cssClass |-> registeredClass.cssClass,
                           widget |-> registeredClass.widget ] ]
         m == Len(registeredClass.callbacks)
     IN  /\ createdComponents_' = PushCreated(createdComponents_, instance)
         /\ IF m > 0
              THEN /\ stack' = SetTop(stack, [f EXCEPT !.pc = "callback",
                                                       !.instance = instance.id,
                                                       !.j = 1, !.m = m,
                                                       !.made = @ + 1,
                                                       !.called =
                                                         <<NextCallback(registeredClass.callbacks, 1)>>])
                   /\ expando' = expando
              ELSE /\ stack' = SetTop(stack, [f EXCEPT !.pc = "upgraded",
                                                       !.instance = instance.id,
                                                       !.made = @ + 1,
                                                       !.events = @ + 1,
                                                       !.called = <<>>])
                   /\ expando' = AfterCallbacks(registeredComponents_, expando,
                                                [f EXCEPT !.instance = instance.id])
  /\ UNCHANGED <<registeredComponents_, dataUpgraded, ret, regOrder, boot, children, snackbar>>

\* The factory throws: the exception leaves upgradeElement at line 206.
FactoryThrow ==
  /\ stack # <<>>
  /\ Top(stack).op = "upgradeElement" /\ Top(stack).pc = "factory"
  /\ Top(stack).classesToUpgrade[Top(stack).i] \in Throwing
  /\ stack' = Unwind(Pop(stack))
  /\ ret' = Thrown(Mk(stack, createdComponents_, dataUpgraded, ret),
                   UEResult(Top(stack), "threw"))
  /\ UNCHANGED <<registeredComponents_, createdComponents_, dataUpgraded,
                 expando, regOrder, boot, children, snackbar>>

\* An upgrade callback returns: lines 210-224.
CallbackReturn ==
  /\ stack # <<>>
  /\ Top(stack).op = "upgradeElement" /\ Top(stack).pc = "callback"
  /\ LET f == Top(stack)
     IN  IF f.j < f.m
           THEN /\ stack' = SetTop(stack,
                     [f EXCEPT !.j = f.j + 1,
                               !.called =
                                 Append(@, NextCallback(
                                   Descriptor(registeredComponents_,
                                              f.classesToUpgrade[f.i]).callbacks,
                                   f.j + 1))])
                /\ expando' = expando
           ELSE /\ stack' = SetTop(stack, [f EXCEPT !.pc = "upgraded",
                                                    !.events = @ + 1])
                /\ expando' = Expando(AfterCallbacks(registeredComponents_, expando, f),
                                      createdComponents_)
  /\ UNCHANGED <<registeredComponents_, createdComponents_, dataUpgraded, ret,
                 regOrder, boot, children, snackbar>>

\* dispatchEvent(upgradedEv) returns: the loop goes on with the next candidate.
UpgradedDone ==
  /\ stack # <<>>
  /\ Top(stack).op = "upgradeElement" /\ Top(stack).pc = "upgraded"
  /\ Commit(LoopStep(registeredComponents_,
                     Mk(stack, createdComponents_, dataUpgraded, ret),
                     [Top(stack) EXCEPT !.i = @ + 1]))
  /\ UNCHANGED <<registeredComponents_, regOrder, boot, children, snackbar>>

\* ------------------------------------------------- the other operations

\* componentHandler.upgradeElements(element).
UpgradeElements(element) ==
  /\ CanCall
  /\ Commit(Run(registeredComponents_,
                Mk(Append(Calling, UEsFrame(<<element>>, TRUE)),
                   createdComponents_, dataUpgraded, Entering)))
  /\ UNCHANGED <<registeredComponents_, regOrder, boot, children, snackbar>>

\* componentHandler.upgradeDom() with no argument.
UpgradeDom ==
  /\ CanCall
  /\ Commit(Run(registeredComponents_,
                Mk(Append(Calling, UDomFrame(TRUE, dataUpgraded)),
                   createdComponents_, dataUpgraded, Entering)))
  /\ UNCHANGED <<registeredComponents_, regOrder, boot, children, snackbar>>

\* upgradeAllRegistered, lines 337-340, whoever calls it.
UpgradeAllRegisteredCall ==
  /\ CanCall
  /\ registeredComponents_' = Reverse(registeredComponents_)
  /\ Commit(Run(registeredComponents_',
                Mk(Append(Calling, UAllFrame(TRUE, dataUpgraded)),
                   createdComponents_, dataUpgraded, Entering)))
  /\ UNCHANGED <<regOrder, children, snackbar>>

\* componentHandler.upgradeAllRegistered(), called by client code.
UpgradeAllRegistered ==
  /\ UpgradeAllRegisteredCall
  /\ UNCHANGED boot

\* downgradeNode keeping only the first component of the node.
ComponentsOfFirst(cc, node) ==
  LET all == SelectSeq(cc, LAMBDA item : item.element_ = node)
  IN  IF all = <<>> THEN <<>> ELSE <<Head(all)>>

\* downgradeNode, lines 377-379: the components the filter keeps.
ComponentsOf(cc, node) == SelectSeq(cc, LAMBDA item : item.element_ = node)

\* componentHandler.downgradeElements(node).
DowngradeElements(node) ==
  /\ CanCall
  /\ Commit(Run(registeredComponents_,
                Mk(Append(Calling,
                          DownFrame(node, ComponentsOf(createdComponents_, node), TRUE,
                                    dataUpgraded[node])),
                   createdComponents_, dataUpgraded, Entering)))
  /\ UNCHANGED <<registeredComponents_, regOrder, boot, children, snackbar>>

\* dispatchEvent of 'mdl-componentdowngraded' returns: the forEach goes on.
DowngradedDone ==
  /\ stack # <<>>
  /\ Top(stack).op = "downgradeElements" /\ Top(stack).pc = "downgraded"
  /\ Commit(Run(registeredComponents_,
                Mk(SetTop(stack, [Top(stack) EXCEPT !.pc = "next", !.k = @ + 1]),
                   createdComponents_, dataUpgraded, ret)))
  /\ UNCHANGED <<registeredComponents_, regOrder, boot, children, snackbar>>

\* ------------------------------------------------------- specifications

\* The calls the environment makes while no handler call is running.
TopLevel == stack = <<>>

\* Spec: the handler as straight-line client code drives it - registrations,
\* upgrades and downgrades in any order, each call made from top level.
Next ==
  \/ \E config \in Configs : Register(config)
  \/ \E jsClass \in CallbackNames : RegisterUpgradedCallback(jsClass)
  \/ TopLevel /\ \E call \in UpgradeCalls : UpgradeElement(call[1], call[2])
  \/ PreventDefault
  \/ UpgradingDone
  \/ FactoryReturn
  \/ FactoryThrow
  \/ CallbackReturn
  \/ UpgradedDone
  \/ TopLevel /\ \E element \in Elements : UpgradeElements(element)
  \/ TopLevel /\ UpgradeDom
  \/ TopLevel /\ UpgradeAllRegistered
  \/ TopLevel /\ \E node \in Elements : DowngradeElements(node)
  \/ DowngradedDone

Spec == Init /\ [][Next]_vars

\* The registry once the components A, B and C have registered at load time
\* and the page has registered an upgrade callback for A.
LoadedRegistry ==
  << [NewConfig(Config("A", "js-a", Undefined, FALSE)) EXCEPT !.callbacks = <<"cb">>],
     NewConfig(Config("B", "js-b", False, FALSE)),
     NewConfig(Config("C", "js-c", False, FALSE)) >>

InitLoaded ==
  /\ registeredComponents_ = LoadedRegistry
  /\ createdComponents_ = <<>>
  /\ dataUpgraded = [e \in Elements |-> Null]
  /\ expando = [e \in Elements |-> [n \in Names |-> 0]]
  /\ stack = <<>>
  /\ ret = NoCall
  /\ regOrder = <<"A", "B", "C">>
  /\ boot = BootInit
  /\ children = childrenOf
  /\ snackbar = SnackbarInit

\* SpecReentrant: after load, factories, upgrade callbacks and event
\* listeners call back into the handler while a call is running.
NextReentrant ==
  \/ \E call \in UpgradeCalls : UpgradeElement(call[1], call[2])
  \/ PreventDefault
  \/ UpgradingDone
  \/ FactoryReturn
  \/ FactoryThrow
  \/ CallbackReturn
  \/ UpgradedDone
  \/ \E element \in Elements : UpgradeElements(element)
  \/ UpgradeDom
  \/ \E node \in Elements : DowngradeElements(node)
  \/ DowngradedDone

SpecReentrant == InitLoaded /\ [][NextReentrant]_vars

\* SpecUpgrades: straight-line client code that registers and upgrades and
\* never downgrades, with factories that do not throw.
NextUpgrades ==
  \/ \E config \in Configs : Register(config)
  \/ \E jsClass \in CallbackNames : RegisterUpgradedCallback(jsClass)
  \/ TopLevel /\ \E call \in UpgradeCalls : UpgradeElement(call[1], call[2])
  \/ PreventDefault
  \/ UpgradingDone
  \/ FactoryReturn
  \/ CallbackReturn
  \/ UpgradedDone
  \/ TopLevel /\ \E element \in Elements : UpgradeElements(element)
  \/ TopLevel /\ UpgradeDom
  \/ TopLevel /\ UpgradeAllRegistered

SpecUpgrades == Init /\ [][NextUpgrades]_vars

\* The factory running on an element appends a child to it, as the
\* constructor of MaterialSwitch does: an element of the page that has no
\* parent and no children yet.
FactoryAppendsChild ==
  /\ stack # <<>>
  /\ Top(stack).op = "upgradeElement" /\ Top(stack).pc = "factory"
  /\ \E child \in Elements :
       /\ child # Top(stack).element
       /\ children[child] = <<>>
       /\ \A e \in Elements : child \notin SeqToSet(children[e])
       /\ children' = [children EXCEPT ![Top(stack).element] = Append(@, child)]
  /\ UNCHANGED <<registeredComponents_, createdComponents_, dataUpgraded,
                 expando, stack, ret, regOrder, boot, snackbar>>

\* A page whose elements have no children yet.
InitTree ==
  /\ registeredComponents_ = <<>>
  /\ createdComponents_ = <<>>
  /\ dataUpgraded = [e \in Elements |-> Null]
  /\ expando = [e \in Elements |-> [n \in Names |-> 0]]
  /\ stack = <<>>
  /\ ret = NoCall
  /\ regOrder = <<>>
  /\ boot = BootInit
  /\ children = [e \in Elements |-> <<>>]
  /\ snackbar = SnackbarInit

\* SpecTree: client code registers components and calls upgradeElements
\* from top level on a page whose factories add children to their element.
NextTree ==
  \/ \E config \in Configs : Register(config)
  \/ TopLevel /\ \E element \in Elements : UpgradeElements(element)
  \/ PreventDefault
  \/ UpgradingDone
  \/ FactoryReturn
  \/ FactoryAppendsChild
  \/ UpgradedDone

SpecTree == InitTree /\ [][NextTree]_vars

\* The callback functions the page registers where their order is followed.
OrderedCallbacks == {"cb", "cb2"}

\* SpecCallbacks: client code registers components and up to
\* MaxOrderedCallbacks upgrade callbacks for a class, in either order, and
\* upgrades single elements from top level.
NextCallbacks ==
  \/ \E config \in Configs : Register(config)
  \/ \E jsClass \in CallbackNames : \E callback \in OrderedCallbacks :
       RegisterUpgradedCallbackOf(jsClass, callback, MaxOrderedCallbacks)
  \/ TopLevel /\ \E call \in UpgradeCalls : UpgradeElement(call[1], call[2])
  \/ PreventDefault
  \/ UpgradingDone
  \/ FactoryReturn
  \/ FactoryThrow
  \/ CallbackReturn
  \/ UpgradedDone

SpecCallbacks == Init /\ [][NextCallbacks]_vars

\* ------------------------------------------------------------------ boot

\* The browsers the model explores, each given by the capabilities it lacks.
Browsers == { {}, {"classList"}, {"querySelector"} }

\* A load listener that takes every browser for a capable one.
CutsTheMustardAlways(missing) == TRUE

\* The test of lines 447-449.
CutsTheMustard(missing) == missing \cap Capabilities = {}

\* What a call returned or threw once upgradeElement and register are the
\* empty functions of lines 454 and 458.
DegradedResult(call, error) ==
  [op |-> "degraded", call |-> call, error |-> error]

\* util.componentHandler.bootMdl(): window.addEventListener('load', ...).
BootMdl ==
  /\ stack = <<>>
  /\ ~boot.fired
  /\ boot.listeners < MaxBootCalls
  /\ boot' = [boot EXCEPT !.listeners = @ + 1]
  /\ ret' = NoCall
  /\ UNCHANGED <<registeredComponents_, createdComponents_, dataUpgraded,
                 expando, stack, regOrder, children, snackbar>>

\* The window's load event fires, in a browser that lacks `missing`.
LoadEvent(missing) ==
  /\ stack = <<>>
  /\ ~boot.fired
  /\ boot' = [boot EXCEPT !.fired = TRUE, !.pending = boot.listeners,
                          !.missing = missing]
  /\ UNCHANGED <<registeredComponents_, createdComponents_, dataUpgraded,
                 expando, stack, ret, regOrder, children, snackbar>>

\* One load listener runs: lines 440-461.
LoadListener ==
  /\ stack = <<>>
  /\ boot.pending > 0
  /\ IF CutsTheMustard(boot.missing)
       THEN /\ UpgradeAllRegisteredCall
            /\ boot' = [boot EXCEPT !.pending = @ - 1, !.mdlJs = TRUE,
                                    !.upgrades = @ + 1]
       ELSE /\ boot' = [boot EXCEPT !.pending = @ - 1, !.dummies = TRUE]
            /\ ret' = NoCall
            /\ UNCHANGED <<registeredComponents_, createdComponents_,
                           dataUpgraded, expando, stack, regOrder, children, snackbar>>

\* Client code runs: no handler call is running and no load listener is
\* waiting for its turn.
Idle == stack = <<>> /\ boot.pending = 0

\* componentHandler.register(config) once it is the function of line 458.
RegisterDummy(config) ==
  /\ boot.dummies
  /\ ret' = DegradedResult("register", FALSE)
  /\ UNCHANGED <<registeredComponents_, createdComponents_, dataUpgraded,
                 expando, stack, regOrder, boot, children, snackbar>>

\* componentHandler.upgradeElement(...) once it is the function of line 454.
UpgradeElementDummy(element, optJsClass) ==
  /\ boot.dummies
  /\ ret' = DegradedResult("upgradeElement", FALSE)
  /\ UNCHANGED <<registeredComponents_, createdComponents_, dataUpgraded,
                 expando, stack, regOrder, boot, children, snackbar>>

\* componentHandler.upgradeElements(element), lines 235-252, while
\* componentHandler.upgradeElement is the function of line 454: the loop
\* and its recursion into the children call the empty function.
UpgradeElementsOverDummy(element) ==
  /\ boot.dummies
  /\ ret' = DegradedResult("upgradeElements", FALSE)
  /\ UNCHANGED <<registeredComponents_, createdComponents_, dataUpgraded,
                 expando, stack, regOrder, boot, children, snackbar>>

\* componentHandler.upgradeDom(), lines 138-159, while
\* componentHandler.upgradeElement is the function of line 454.  For each
\* registered descriptor line 154 calls document.querySelectorAll; in a
\* browser without 'querySelector' in document that function may be
\* missing as well (selectorsWork = FALSE), and calling it is a TypeError.
UpgradeDomOverDummy(selectorsWork) ==
  /\ boot.dummies
  /\ ret' = DegradedResult("upgradeDom",
                           Len(registeredComponents_) > 0 /\ ~selectorsWork)
  /\ UNCHANGED <<registeredComponents_, createdComponents_, dataUpgraded,
                 expando, stack, regOrder, boot, children, snackbar>>

\* document.querySelectorAll exists in every browser with querySelector;
\* without it, it exists or not.
SelectorsWork ==
  IF "querySelector" \in boot.missing THEN BOOLEAN ELSE {TRUE}

\* SpecBoot: the page calls bootMdl, the window's load event fires, and
\* client code registers and upgrades before and after it.
NextBoot ==
  \/ BootMdl
  \/ \E missing \in Browsers : LoadEvent(missing)
  \/ LoadListener
  \/ Idle /\ ~boot.dummies /\ \E config \in Configs : Register(config)
  \/ Idle /\ \E config \in Configs : RegisterDummy(config)
  \/ Idle /\ \E jsClass \in CallbackNames : RegisterUpgradedCallback(jsClass)
  \/ Idle /\ ~boot.dummies
          /\ \E call \in UpgradeCalls : UpgradeElement(call[1], call[2])
  \/ Idle /\ \E call \in UpgradeCalls : UpgradeElementDummy(call[1], call[2])
  \/ UpgradingDone
  \/ FactoryReturn
  \/ CallbackReturn
  \/ UpgradedDone
  \/ Idle /\ ~boot.dummies /\ \E element \in Elements : UpgradeElements(element)
  \/ Idle /\ \E element \in Elements : UpgradeElementsOverDummy(element)
  \/ Idle /\ ~boot.dummies /\ UpgradeDom
  \/ Idle /\ \E selectorsWork \in SelectorsWork :
               UpgradeDomOverDummy(selectorsWork)

SpecBoot == Init /\ [][NextBoot]_vars

\* -------------------------------------------------------------- snackbar

\* The fields the handler's state keeps while the snackbar acts.
HandlerVars ==
  <<registeredComponents_, createdComponents_, dataUpgraded, expando, stack,
    ret, regOrder, boot, children>>

\* displaySnackbar_, lines 174-188, after showSnackbar has stored the
\* notification's data (lines 207-217).
DisplaySnackbar(sb, data) ==
  [sb EXCEPT !.active_ = TRUE, !.message_ = data,
             !.textContent = data, !.activeClass = TRUE,
             !.timeoutID_ = data, !.timeouts = @ \cup {data},
             !.displayed = Append(@, data)]

\* showSnackbar(data) for a valid data object, lines 196-220.
ShowSnackbarOn(sb, data) ==
  IF sb.active_
    THEN [sb EXCEPT !.queuedNotifications_ = Append(@, data)]
    ELSE DisplaySnackbar(sb, data)

\* cleanup_, lines 253-255 and 269: the class goes and the rest is deferred
\* by ANIMATION_LENGTH.
Cleanup(sb) ==
  [sb EXCEPT !.activeClass = FALSE, !.cleanups = Append(@, sb.message_)]

\* Client code calls showSnackbar with its next notification.
ShowSnackbar ==
  /\ snackbar.shows < MaxShows
  /\ snackbar' = ShowSnackbarOn([snackbar EXCEPT !.shows = @ + 1],
                                snackbar.shows + 1)
  /\ UNCHANGED HandlerVars

\* Client code calls hideSnackbar, lines 227-234.
HideSnackbar ==
  /\ Len(snackbar.cleanups) < MaxCleanups
  /\ snackbar' =
       IF ~snackbar.active_ THEN snackbar
       ELSE IF snackbar.timeoutID_ # 0
         THEN Cleanup([snackbar EXCEPT !.timeouts = @ \ {snackbar.timeoutID_}])
         ELSE snackbar
  /\ UNCHANGED HandlerVars

\* The timer set by displaySnackbar_ for the notification fires: cleanup_.
TimeoutFires(data) ==
  /\ data \in snackbar.timeouts
  /\ Len(snackbar.cleanups) < MaxCleanups
  /\ snackbar' = Cleanup([snackbar EXCEPT !.timeouts = @ \ {data}])
  /\ UNCHANGED HandlerVars

\* The oldest timer set by cleanup_ fires: lines 255-268, then checkQueue_
\* (lines 242-246) shows the next queued notification.
CleanupFires ==
  /\ snackbar.cleanups # <<>>
  /\ LET cleared == [snackbar EXCEPT !.cleanups = Tail(@),
                                     !.textContent = 0, !.message_ = 0,
                                     !.timeoutID_ = 0, !.active_ = FALSE]
     IN  snackbar' =
           IF Len(cleared.queuedNotifications_) > 0
             THEN ShowSnackbarOn(
                    [cleared EXCEPT !.queuedNotifications_ = Tail(@)],
                    Head(cleared.queuedNotifications_))
             ELSE cleared
  /\ UNCHANGED HandlerVars

\* SpecSnackbar: client code shows and hides notifications on one
\* MaterialSnackbar while its timers fire.
NextSnackbar ==
  \/ ShowSnackbar
  \/ HideSnackbar
  \/ \E data \in 1..MaxShows : TimeoutFires(data)
  \/ CleanupFires

SpecSnackbar == Init /\ [][NextSnackbar]_vars

\* ------------------------------------------------------------- properties

\* The number of components of class name on element in the ledger.
InstancesOf(cc, element, name) ==
  Cardinality({k \in 1..Len(cc) :
                 /\ cc[k].element_ = element
                 /\ cc[k].mdlComponentConfigInternal_.className = name})

\* The last call was an upgradeElement call that repeated, with nothing in
\* between, the upgradeElement call before it.
SecondCall ==
  /\ stack = <<>>
  /\ ret.op = "upgradeElement"
  /\ ~ret.nested
  /\ ret.succ

\* C1: when upgradeElement(e) (or upgradeElement(e, T)) is called twice in
\* succession with no operation in between, the second call marks and
\* constructs nothing the first call applied, what it applies with no
\* optJsClass matches e's classList, and the ledger holds no two components
\* of one class on e.
C1_SecondCallAppliesNothingAgain ==
  SecondCall =>
    /\ ret.applied \cap ret.prev = {}
    /\ \A name \in Names :
         InstancesOf(createdComponents_, ret.element, name) <= 1
    /\ ret.optJsClass = Undefined =>
         \A name \in ret.applied :
           Descriptor(registeredComponents_, name).cssClass
             \in classListOf[ret.element]

\* A second upgradeElement(e1) has returned after the first applied A and B.
C1_Witness ==
  /\ SecondCall
  /\ ret.outcome = "ok"
  /\ ret.element = "e1" /\ ret.optJsClass = Undefined
  /\ ret.prev = {"A", "B"}
  /\ InstancesOf(createdComponents_, "e1", "A") = 1
  /\ InstancesOf(createdComponents_, "e1", "B") = 1

\* The frame stack[k] is an upgradeElement call whose factory for class
\* name is running on element.
InFactory(k, element, name) ==
  /\ stack[k].op = "upgradeElement"
  /\ stack[k].pc = "factory"
  /\ stack[k].element = element
  /\ stack[k].classesToUpgrade[stack[k].i] = name

\* C2: while the factory of class T runs on element e inside upgradeElement,
\* no upgrade call made from that factory (upgradeElement, upgradeElements or
\* upgradeDom reaching e) runs T's factory on e again: T is in e's marker
\* from before the factory started.  (A downgrade made in between takes
\* names out of the marker and is not covered.)
C2_NoFactoryTwiceWhileRunning ==
  \A a \in 1..Len(stack) : \A b \in 1..Len(stack) :
    \A element \in Elements : \A name \in Names :
      (a < b /\ InFactory(a, element, name) /\ InFactory(b, element, name))
        => stack[a].sawDowngrade

\* While A's factory runs on e1, an upgrade call made by it has reached e1
\* and runs the factory of B there.
C2_Witness ==
  /\ Len(stack) >= 2
  /\ InFactory(1, "e1", "A")
  /\ ~stack[1].sawDowngrade
  /\ InFactory(Len(stack), "e1", "B")

\* No entry occurs twice in list.
NoDuplicate(list) ==
  \A a \in 1..Len(list) : \A b \in 1..Len(list) :
    list[a] = list[b] => a = b

\* C3: after any sequence of upgrade and downgrade operations, re-entrant
\* ones included, on elements that started without the attribute, no
\* component name appears twice in an element's data-upgraded list.
C3_MarkerNamesUnique ==
  \A element \in Elements :
    dataUpgraded[element] # Null => NoDuplicate(Split(dataUpgraded[element]))

\* An upgradeElement(e1) call made while another upgradeElement(e1) call is
\* running has marked a name, and e1's list holds A and B.
C3_Witness ==
  /\ Len(stack) >= 2
  /\ stack[1].op = "upgradeElement" /\ stack[1].element = "e1"
  /\ Top(stack).op = "upgradeElement" /\ Top(stack).element = "e1"
  /\ Top(stack).applied # <<>>
  /\ Split(dataUpgraded["e1"]) = << <<>>, <<"A">>, <<"B">> >>

\* The registry holds a descriptor of this name before the call.
NameRegistered(config) ==
  findRegisteredClass_(registeredComponents_, config.classAsString) # 0

\* The position of the first descriptor with this cssClass, 0 when none.
RECURSIVE FirstWithCssFrom(_, _, _)
FirstWithCssFrom(reg, cssClass, k) ==
  IF k > Len(reg) THEN 0
  ELSE IF reg[k].cssClass = cssClass THEN k
  ELSE FirstWithCssFrom(reg, cssClass, k + 1)

\* The registry holds a descriptor of another name with this cssClass.
CssClassTaken(config) ==
  \E k \in 1..Len(registeredComponents_) :
    /\ registeredComponents_[k].cssClass = config.cssClass
    /\ registeredComponents_[k].className # config.classAsString

\* C4 as stated: register with the name of a registered descriptor puts the
\* new descriptor at the old one's position and leaves the other entries
\* and the length as they were; only a name not yet present is appended.
C4_ReplacedInPlace ==
  [][\A config \in Configs :
       Register(config) =>
         IF NameRegistered(config)
           THEN registeredComponents_' =
                  findRegisteredClassReplace_(registeredComponents_,
                                              config.classAsString,
                                              NewConfig(config))
           ELSE registeredComponents_' \in
                  { registeredComponents_,
                    Append(registeredComponents_, NewConfig(config)) }]_vars

\* C4, amended: register with the name of a registered descriptor throws
\* (naming the cssClass or the className) and leaves the registry as it
\* was; a name not yet present is appended when register throws nothing,
\* and the registry is left as it was when it throws.
C4_SameNameThrows ==
  [][\A config \in Configs :
       Register(config) =>
         IF NameRegistered(config)
           THEN /\ ret'.error \in {"cssClass", "className"}
                /\ registeredComponents_' = registeredComponents_
           ELSE registeredComponents_' =
                  IF ret'.error = ""
                    THEN Append(registeredComponents_, NewConfig(config))
                    ELSE registeredComponents_]_vars

\* register('C', 'js-a') has thrown the className error: C was registered
\* with js-c, and the registry still holds that descriptor.
C4_Witness ==
  /\ ret.op = "register"
  /\ ret.config = Config("C", "js-a", "true", FALSE)
  /\ ret.error = "className"
  /\ NameRegistered(ret.config)
  /\ Descriptor(registeredComponents_, "C").cssClass = "js-c"

\* C5 as stated: register with a cssClass that a registered descriptor of
\* another name uses throws the error that names the cssClass, and leaves
\* the registry as it was.
C5_CssClassErrorNamesSelector ==
  [][\A config \in Configs :
       (Register(config) /\ CssClassTaken(config)) =>
         /\ ret'.error = "cssClass"
         /\ registeredComponents_' = registeredComponents_]_vars

\* C5, amended: register with a cssClass that a registered descriptor of
\* another name uses throws and leaves the registry as it was; the error
\* names the cssClass unless a descriptor registered before the first user
\* of the cssClass carries the new name, and then it names the className.
C5_CssClassCollisionThrows ==
  [][\A config \in Configs :
       (Register(config) /\ CssClassTaken(config)) =>
         /\ registeredComponents_' = registeredComponents_
         /\ LET first == FirstWithCssFrom(registeredComponents_, config.cssClass, 1)
                found == findRegisteredClass_(registeredComponents_,
                                              config.classAsString)
            IN  ret'.error = IF found # 0 /\ found < first
                               THEN "className" ELSE "cssClass"]_vars

\* register('C', 'js-a') has thrown the className error while A, registered
\* after C, uses js-a.
C5_Witness ==
  /\ ret.op = "register"
  /\ ret.config = Config("C", "js-a", "true", FALSE)
  /\ CssClassTaken(ret.config)
  /\ ret.error = "className"
  /\ findRegisteredClass_(registeredComponents_, "C")
       < findRegisteredClass_(registeredComponents_, "A")

\* C6: after any sequence of register calls, thrown or not, no two
\* registry entries share a className and none share a cssClass.
C6_RegistryKeysUnique ==
  \A a \in 1..Len(registeredComponents_) :
    \A b \in 1..Len(registeredComponents_) :
      a # b =>
        /\ registeredComponents_[a].className # registeredComponents_[b].className
        /\ registeredComponents_[a].cssClass # registeredComponents_[b].cssClass

\* Three descriptors are registered and the last register call threw.
C6_Witness ==
  /\ Len(registeredComponents_) = 3
  /\ ret.op = "register"
  /\ ret.error # ""

\* C7: every invocation of upgradeAllRegistered runs its passes in the
\* exact reverse of the order in which the classes were registered.
C7_PassesInReverseRegistrationOrder ==
  ret.op = "upgradeAllRegistered" => ret.passes = Reverse(regOrder)

\* list is a prefix of longer.
IsPrefix(list, longer) ==
  /\ Len(list) <= Len(longer)
  /\ SubSeq(longer, 1, Len(list)) = list

\* C8: a step that changes the registry is a register or a
\* registerUpgradedCallback call, and every descriptor stays at its
\* position and changes only by its callbacks list growing.
C8_RegistryChangedOnlyByRegister ==
  [][registeredComponents_' # registeredComponents_ =>
       /\ \/ \E config \in Configs : Register(config)
          \/ \E jsClass \in CallbackNames : RegisterUpgradedCallback(jsClass)
       /\ Len(registeredComponents_') >= Len(registeredComponents_)
       /\ \A k \in 1..Len(registeredComponents_) :
            /\ registeredComponents_'[k] =
                 [registeredComponents_[k] EXCEPT
                    !.callbacks = registeredComponents_'[k].callbacks]
            /\ IsPrefix(registeredComponents_[k].callbacks,
                        registeredComponents_'[k].callbacks)]_vars

\* An upgradeElement call whose 'mdl-componentupgrading' event a listener
\* cancelled is on top of the stack.
CancelledCall ==
  /\ stack # <<>>
  /\ Top(stack).op = "upgradeElement"
  /\ Top(stack).pc = "upgrading"
  /\ Top(stack).defaultPrevented

\* C9: when a listener cancels the 'mdl-componentupgrading' event, the
\* upgradeElement call returns without an error and changes nothing: the
\* markers, the ledger, the back-references and the registry stay as they
\* were, and the call never reaches a factory, a callback or the
\* 'mdl-componentupgraded' event.
C9_CancelledUpgradeChangesNothing ==
  [][/\ (CancelledCall /\ UpgradingDone) =>
          /\ UNCHANGED <<dataUpgraded, createdComponents_, expando,
                         registeredComponents_>>
          /\ Len(stack) = 1 =>
               /\ stack' = <<>>
               /\ ret'.op = "upgradeElement"
               /\ ret'.outcome = "cancelled"
               /\ ret'.applied = {}
     /\ \A k \in 1..Len(stack') :
          (stack'[k].op = "upgradeElement" /\ stack'[k].defaultPrevented) =>
            (stack'[k].pc = "upgrading" /\ stack'[k].applied = <<>>)]_vars

\* upgradeElement(e1) has returned cancelled while A, which matches e1, is
\* registered: e1 has no marker and the ledger is empty.
C9_Witness ==
  /\ stack = <<>>
  /\ ret.op = "upgradeElement"
  /\ ret.outcome = "cancelled"
  /\ ret.element = "e1" /\ ret.optJsClass = Undefined
  /\ findRegisteredClass_(registeredComponents_, "A") # 0
  /\ dataUpgraded["e1"] = Null
  /\ createdComponents_ = <<>>

\* The classNames of the components on element, in the order of the ledger.
RECURSIVE AppliedNames(_, _)
AppliedNames(cc, element) ==
  IF Len(cc) = 0 THEN <<>>
  ELSE (IF Head(cc).element_ = element
          THEN <<Head(cc).mdlComponentConfigInternal_.className>> ELSE <<>>)
       \o AppliedNames(Tail(cc), element)

\* The string made of the names with one comma between neighbours.
RECURSIVE CommaList(_)
CommaList(names) ==
  IF Len(names) = 0 THEN <<>>
  ELSE IF Len(names) = 1 THEN <<names[1]>>
  ELSE CommaList(SubSeq(names, 1, Len(names) - 1))
         \o <<Comma, names[Len(names)]>>

\* C10 as stated: once the upgrades of an element that started without the
\* attribute have returned, data-upgraded is exactly the applied names
\* joined by commas in application order, with no empty entry.
C10_MarkerIsJoinedNames ==
  \A element \in Elements :
    (stack = <<>> /\ AppliedNames(createdComponents_, element) # <<>>) =>
      dataUpgraded[element] = CommaList(AppliedNames(createdComponents_, element))

\* C10, amended: once the upgrades of an element that started without the
\* attribute have returned, data-upgraded is a comma followed by the applied
\* names joined by commas in application order (its list starts with one
\* empty entry); an element nothing was applied to has no attribute.
C10_MarkerIsCommaThenJoinedNames ==
  \A element \in Elements :
    stack = <<>> =>
      dataUpgraded[element] =
        IF AppliedNames(createdComponents_, element) = <<>> THEN Null
        ELSE <<Comma>> \o CommaList(AppliedNames(createdComponents_, element))

\* e1 was upgraded to A and then to B; e2, upgraded to A alone, has the
\* attribute ",A".
C10_Witness ==
  /\ stack = <<>>
  /\ AppliedNames(createdComponents_, "e1") = <<"A", "B">>
  /\ AppliedNames(createdComponents_, "e2") = <<"A">>
  /\ dataUpgraded["e2"] = <<Comma, "A">>

\* C11 as stated: for an element without the data-upgraded attribute
\* getUpgradedListOfElement_ returns a list of zero entries, and that
\* result differs from the result for an element whose attribute is the
\* empty string.
C11_MissingAttributeGivesEmptyList ==
  \A element \in Elements : \A other \in Elements :
    dataUpgraded[element] = Null =>
      /\ getUpgradedListOfElement_(dataUpgraded[element]) = <<>>
      /\ dataUpgraded[other] = <<>> =>
           getUpgradedListOfElement_(dataUpgraded[other])
             # getUpgradedListOfElement_(dataUpgraded[element])

\* C11, amended: for an element without the data-upgraded attribute
\* getUpgradedListOfElement_ returns the list holding one empty string,
\* the same list it returns for an element whose attribute is the empty
\* string.
C11_MissingAttributeGivesOneEmptyEntry ==
  \A element \in Elements : \A other \in Elements :
    dataUpgraded[element] = Null =>
      /\ getUpgradedListOfElement_(dataUpgraded[element]) = << <<>> >>
      /\ dataUpgraded[other] = <<>> =>
           getUpgradedListOfElement_(dataUpgraded[other])
             = getUpgradedListOfElement_(dataUpgraded[element])

\* e2 never had the attribute; e1 was upgraded and downgraded and has the
\* attribute with the empty string as its value.
C11_Witness ==
  /\ stack = <<>>
  /\ dataUpgraded["e2"] = Null
  /\ dataUpgraded["e1"] = <<>>

\* The frame stack[k] is a downgradeElements call whose
\* 'mdl-componentdowngraded' event for a component is being dispatched.
Downgrading(k) ==
  /\ stack[k].op = "downgradeElements"
  /\ stack[k].pc = "downgraded"

\* C12: when downgradeElements takes down a component of class T on element
\* e, the name taken out of e's marker is T: while the component's
\* 'mdl-componentdowngraded' event is dispatched, T is not in e's marker
\* and the classes of e's components still in the ledger are.
C12_DowngradeRemovesOwnName ==
  \A k \in 1..Len(stack) :
    Downgrading(k) =>
      LET component == stack[k].components[stack[k].k]
          element == component.element_
      IN  /\ ~isElementUpgraded_(dataUpgraded[element],
                                 component.mdlComponentConfigInternal_.className)
          /\ \A name \in SeqToSet(AppliedNames(createdComponents_, element)) :
               isElementUpgraded_(dataUpgraded[element], name)

\* The last call was a downgradeElements call, made from top level, whose
\* listeners made no call into the handler.
DowngradeReturned ==
  /\ stack = <<>>
  /\ ret.op = "downgradeElements"
  /\ ~ret.nested

\* The names in the list of a data-upgraded value.
NamesListed(dataUpgradedValue) ==
  SelectSeq(getUpgradedListOfElement_(dataUpgradedValue),
            LAMBDA entry : entry # <<>>)

\* downgradeElements(node) is called for a node without components.
NothingToDowngrade ==
  \E node \in Elements :
    /\ DowngradeElements(node)
    /\ ComponentsOf(createdComponents_, node) = <<>>

UnknownClassCall ==
  /\ stack # <<>>
  /\ Top(stack).op = "upgradeElement"
  /\ Top(stack).pc = "upgrading"
  /\ ~Top(stack).defaultPrevented
  /\ Top(stack).optJsClass # Undefined
  /\ findRegisteredClass_(registeredComponents_, Top(stack).optJsClass) = 0
  /\ ~isElementUpgraded_(dataUpgraded[Top(stack).element], Top(stack).optJsClass)

\* C14: upgradeElement(el, N) with N not registered and not in el's marker
\* throws, and leaves el's marker and the ledger (and every other marker,
\* the back-references and the registry) as they were.
C14_UnknownClassThrows ==
  [][(UnknownClassCall /\ UpgradingDone) =>
       /\ UNCHANGED <<dataUpgraded, createdComponents_, expando,
                      registeredComponents_>>
       /\ stack' = Unwind(Pop(stack))
       /\ Len(stack) = 1 =>
            /\ ret'.op = "upgradeElement"
            /\ ret'.outcome = "threw"
            /\ ret'.optJsClass = Top(stack).optJsClass
            /\ ret'.applied = {}]_vars

\* upgradeElement(e1, 'D') has thrown; A, applied to e1 before, is still in
\* e1's marker and in the ledger.
C14_Witness ==
  /\ stack = <<>>
  /\ ret.op = "upgradeElement"
  /\ ret.outcome = "threw"
  /\ ret.element = "e1" /\ ret.optJsClass = "D"
  /\ dataUpgraded["e1"] = <<Comma, "A">>
  /\ InstancesOf(createdComponents_, "e1", "A") = 1

\* The bookkeeping of a running upgradeElement call g agrees with the point
\* it has reached: one component pushed for each finished candidate, and
\* one 'mdl-componentupgraded' event dispatched for each, after the
\* candidate's component was pushed and its callbacks were called.
OneComponentOneEvent(g, cc, ex) ==
  LET name == g.classesToUpgrade[g.i]
  IN  /\ g.pc = "upgrading" =>
           (g.applied = <<>> /\ g.made = 0 /\ g.events = 0)
      /\ g.pc = "factory" =>
           (g.made = Len(g.applied) - 1 /\ g.events = g.made)
      /\ g.pc = "callback" =>
           (g.made = Len(g.applied) /\ g.events = g.made - 1)
      /\ g.pc = "upgraded" =>
           /\ g.made = Len(g.applied) /\ g.events = g.made
           /\ InstancesOf(cc, g.element, name) = 1
           /\ Live(cc, g.element, name, g.instance)

\* C15: each descriptor upgradeElement applies pushes exactly one component
\* onto the ledger, linked to its element and its descriptor, and has
\* exactly one 'mdl-componentupgraded' event dispatched, which cannot be
\* cancelled and comes after the descriptor's own upgrade steps; a call
\* that applies no descriptor pushes nothing and dispatches no such event.
C15_OneComponentAndOneEventPerDescriptor ==
  [][/\ Len(createdComponents_') > Len(createdComponents_) => FactoryReturn
     /\ FactoryReturn =>
          LET f == Top(stack)
              name == f.classesToUpgrade[f.i]
              component == createdComponents_'[Len(createdComponents_')]
          IN  /\ Len(createdComponents_') = Len(createdComponents_) + 1
              /\ createdComponents_' = Append(createdComponents_, component)
              /\ component.element_ = f.element
              /\ component.mdlComponentConfigInternal_.className = name
              /\ component.mdlComponentConfigInternal_.cssClass =
                   Descriptor(registeredComponents_, name).cssClass
     /\ PreventDefault => Top(stack).pc = "upgrading"
     /\ \A k \in 1..Len(stack') :
          stack'[k].op = "upgradeElement" =>
            OneComponentOneEvent(stack'[k], createdComponents_', expando')
     /\ (ret' # ret /\ ret'.op = "upgradeElement" /\ ~ret'.nested) =>
          /\ ret'.events = ret'.made
          /\ ret'.outcome = "ok" => ret'.made = Cardinality(ret'.applied)
          /\ ret'.applied = {} =>
               /\ ret'.made = 0
               /\ createdComponents_' = createdComponents_]_vars

\* upgradeElement(e1) has returned after applying A and B: two components
\* pushed, two 'mdl-componentupgraded' events.
C15_Witness ==
  /\ stack = <<>>
  /\ ret.op = "upgradeElement" /\ ~ret.nested
  /\ ret.outcome = "ok"
  /\ ret.applied = {"A", "B"}
  /\ ret.made = 2 /\ ret.events = 2
  /\ AppliedNames(createdComponents_, "e1") = <<"A", "B">>

\* The last call was an upgradeDom() or upgradeAllRegistered() call that
\* returned, none of its upgradeElement calls cancelled.
DomUpgradeReturned ==
  /\ stack = <<>>
  /\ ret.op \in {"upgradeDom", "upgradeAllRegistered"}
  /\ ~ret.cancelled

RegisteredNames ==
  [i \in DOMAIN registeredComponents_ |-> registeredComponents_[i].className]

\* Degraded mode adds no descriptor and leaves the ledger and every marker
\* alone.
DegradedFrame ==
  [][boot.dummies =>
       UNCHANGED <<RegisteredNames, createdComponents_, dataUpgraded>>]_vars

\* C17: once the load handler has found a required capability missing, any
\* later register, upgradeElement, upgradeElements or upgradeDom call adds
\* no descriptor to the registry, adds no instance to the ledger, changes
\* no element's marker and raises no error.
C17_DegradedCallsAreNoOps ==
  [][boot.dummies =>
       /\ UNCHANGED <<RegisteredNames, createdComponents_, dataUpgraded>>
       /\ ret'.op = "degraded" => ~ret'.error]_vars

\* ---- C18
\* An upgradeAllRegistered call is running.
BootUpgradeRunning ==
  \E k \in 1..Len(stack) : stack[k].op = "upgradeAllRegistered"

\* C18: after bootMdl, the load event triggers exactly one
\* upgradeAllRegistered call per bootMdl call when the capability check
\* passes, made after the mdl-js flag is set, and none when it fails; the
\* boot sequence makes no upgradeAllRegistered call before the load event.
C18_LoadTriggersOneUpgradeAll ==
  /\ ~boot.fired => boot.upgrades = 0 /\ ~BootUpgradeRunning
  /\ boot.fired =>
       boot.upgrades = IF boot.missing \cap Capabilities = {}
                         THEN boot.listeners - boot.pending
                         ELSE 0
  /\ (boot.upgrades > 0 \/ BootUpgradeRunning) => boot.mdlJs
  /\ BootUpgradeRunning => boot.upgrades > 0

\* The load event fired in a capable browser after one bootMdl call and
\* its upgradeAllRegistered call has returned, having built an instance.
C18_Witness ==
  /\ boot.fired
  /\ boot.listeners = 1
  /\ boot.pending = 0
  /\ boot.missing = {}
  /\ boot.upgrades = 1
  /\ boot.mdlJs
  /\ stack = <<>>
  /\ ret.op = "upgradeAllRegistered"
  /\ createdComponents_ # <<>>

\* ---- C19
\* The marker value lists the component name.
ListsName(dataUpgradedValue, name) ==
  \E k \in DOMAIN getUpgradedListOfElement_(dataUpgradedValue) :
    getUpgradedListOfElement_(dataUpgradedValue)[k] = Str(name)

\* C19: when the factory of the k-th candidate raises inside one
\* upgradeElement call, the exception propagates to the caller uncaught and
\* nothing is rolled back: candidates 1..k-1 keep their names in the marker
\* and their instances in the ledger, and the candidates after k are not
\* applied.
C19_FactoryErrorPropagatesNoRollback ==
  [][FactoryThrow =>
       LET f == Top(stack)
           k == f.i
       IN  /\ stack' = <<>>
           /\ ret'.op = "upgradeElement"
           /\ ret'.outcome = "threw"
           /\ ret'.element = f.element
           /\ UNCHANGED <<createdComponents_, dataUpgraded, expando>>
           /\ \A j \in 1..(k - 1) :
                /\ ListsName(dataUpgraded'[f.element], f.classesToUpgrade[j])
                /\ InstancesOf(createdComponents_', f.element,
                               f.classesToUpgrade[j]) = 1
           /\ ListsName(dataUpgraded'[f.element], f.classesToUpgrade[k])
           /\ InstancesOf(createdComponents_', f.element,
                          f.classesToUpgrade[k]) = 0
           /\ \A j \in (k + 1)..Len(f.classesToUpgrade) :
                /\ ~ListsName(dataUpgraded'[f.element], f.classesToUpgrade[j])
                /\ InstancesOf(createdComponents_', f.element,
                               f.classesToUpgrade[j]) = 0
           /\ ret'.applied = {f.classesToUpgrade[j] : j \in 1..k}
           /\ ret'.made = k - 1]_vars

\* An upgradeElement call has thrown out of the factory of its second
\* candidate, B: A, applied first by the same call, is still in the marker
\* and in the ledger.
C19_Witness ==
  /\ stack = <<>>
  /\ ret.op = "upgradeElement"
  /\ ret.outcome = "threw"
  /\ ret.element = "e1"
  /\ ret.applied = {"A", "B"}
  /\ ret.made = 1
  /\ dataUpgraded["e1"] = <<Comma, "A", Comma, "B">>
  /\ InstancesOf(createdComponents_, "e1", "A") = 1
  /\ InstancesOf(createdComponents_, "e1", "B") = 0

\* ---- C20
\* upgradeElement, lines 203-205, for one name: the marker after the name
\* was pushed onto the element's list and the list written back.
MarkApplied(dataUpgradedValue, name) ==
  Join(Append(getUpgradedListOfElement_(dataUpgradedValue), Str(name)))

\* The component upgradeElement builds on the element from the descriptor
\* (lines 206-207), as far as deconstructComponentInternal reads it.
InstanceOf(element, registeredClass) ==
  [ element_ |-> element,
    mdlComponentConfigInternal_ |->
      [ className |-> registeredClass.className,
        cssClass |-> registeredClass.cssClass,
        widget |-> registeredClass.widget ] ]

\* The marker after the name of the descriptor was appended and the
\* instance built from the descriptor was taken down again.
RoundTrip(element, registeredClass) ==
  DeconstructMarker(MarkApplied(dataUpgraded[element], registeredClass.className),
                    InstanceOf(element, registeredClass))

\* C20: marker round trip.  For any element e and any registered component
\* name X not in e's marker, the marker-append step of upgradeElement for X
\* followed by the marker-removal step of downgrade for the instance of X
\* leaves e's parsed applied-name list equal to the list it had before the
\* append, the remaining entries in their original order.
C20_MarkerRoundTrip ==
  \A element \in Elements :
    \A i \in DOMAIN registeredComponents_ :
      ~ListsName(dataUpgraded[element], registeredComponents_[i].className)
        => getUpgradedListOfElement_(RoundTrip(element, registeredComponents_[i]))
             = getUpgradedListOfElement_(dataUpgraded[element])

\* e1's marker is ",A", B is registered and not listed, and appending B and
\* taking B's instance down gives back the list ["", "A"].
C20_Witness ==
  /\ dataUpgraded["e1"] = <<Comma, "A">>
  /\ \E i \in DOMAIN registeredComponents_ :
       /\ registeredComponents_[i].className = "B"
       /\ MarkApplied(dataUpgraded["e1"], "B") = <<Comma, "A", Comma, "B">>
       /\ getUpgradedListOfElement_(RoundTrip("e1", registeredComponents_[i]))
            = << <<>>, <<"A">> >>

\* ---- C21
\* JavaScript truthiness of a descriptor's widget flag.
Truthy(widget) == widget # False /\ widget # Undefined

\* C21: after upgradeElement has applied descriptor T to element e, the new
\* instance is retrievable as e[T.className] if and only if T's widget flag
\* is truthy, while the 'mdl-componentupgraded' event is dispatched and for
\* as long as the instance stays in the ledger; a descriptor registered
\* without a widget field gets widget = true.
C21_BackReferenceIffWidget ==
  /\ \A k \in 1..Len(stack) :
       stack[k].op = "upgradeElement" /\ stack[k].pc = "upgraded"
         => LET T == Descriptor(registeredComponents_,
                                stack[k].classesToUpgrade[stack[k].i])
            IN  (expando[stack[k].element][T.className] = stack[k].instance)
                  <=> Truthy(T.widget)
  /\ \A k \in 1..Len(createdComponents_) :
       LET c == createdComponents_[k]
           T == c.mdlComponentConfigInternal_
       IN  (\A j \in 1..Len(stack) :
              stack[j].op = "upgradeElement" =>
                stack[j].pc = "upgraded" \/ stack[j].instance # c.id
                  \/ stack[j].element # c.element_)
             => ((expando[c.element_][T.className] = c.id) <=> Truthy(T.widget))
  /\ ret.op = "register" /\ ret.error = "" /\ ret.config.widget = Undefined
       => Descriptor(registeredComponents_, ret.config.classAsString).widget = "true"

\* upgradeElement has returned with A (registered without a widget field)
\* and B (widget: false) applied to e1: e1.A is A's instance, e1.B is unset.
C21_Witness ==
  /\ stack = <<>>
  /\ ret.op = "upgradeElement"
  /\ ret.outcome = "ok"
  /\ InstancesOf(createdComponents_, "e1", "A") = 1
  /\ InstancesOf(createdComponents_, "e1", "B") = 1
  /\ expando["e1"]["A"] > 0
  /\ expando["e1"]["B"] = 0

\* ---- C22
\* The components a downgradeElements frame has deconstructed so far whose
\* class defines a downgrade method.
TornDownWithMethod(f) ==
  Cardinality({k \in 1..f.k :
                 k <= Len(f.components) /\
                 f.components[k].mdlComponentConfigInternal_.className
                   \in DefinesDowngrade})

\* C22: for every instance it tears down, downgradeElements runs the
\* instance's own teardown: a component that defines a downgrade method has
\* had it executed by the time its 'mdl-componentdowngraded' event fires.
C22_TeardownRunsBeforeEvent ==
  \A k \in 1..Len(stack) :
    stack[k].op = "downgradeElements" /\ stack[k].pc = "downgraded"
      => stack[k].teardowns = TornDownWithMethod(stack[k])

\* ---- C23
\* The last entry of the marker's list.
LastListed(dataUpgradedValue) ==
  getUpgradedListOfElement_(dataUpgradedValue)
    [Len(getUpgradedListOfElement_(dataUpgradedValue))]

\* Candidate j of the upgradeElement frame f has had all its steps: its
\* name is in the marker, its instance in the ledger, its back-reference set
\* if it is a widget.
CandidateDone(f, j) ==
  /\ ListsName(dataUpgraded[f.element], f.classesToUpgrade[j])
  /\ InstancesOf(createdComponents_, f.element, f.classesToUpgrade[j]) = 1
  /\ Truthy(Descriptor(registeredComponents_, f.classesToUpgrade[j]).widget)
       => expando[f.element][f.classesToUpgrade[j]] > 0

\* Candidate j of the upgradeElement frame f has had none of its steps.
CandidateUntouched(f, j) ==
  /\ ~ListsName(dataUpgraded[f.element], f.classesToUpgrade[j])
  /\ InstancesOf(createdComponents_, f.element, f.classesToUpgrade[j]) = 0
  /\ expando[f.element][f.classesToUpgrade[j]] = 0

\* C23: for each candidate, upgradeElement writes the name into the marker,
\* runs the factory, attaches the descriptor to the instance, appends the
\* instance to the ledger, invokes the descriptor's upgrade callbacks in
\* their registration order, sets the back-reference if the descriptor is a
\* widget, and dispatches 'mdl-componentupgraded', in this order; every
\* step for candidate i precedes every step for candidate i+1.  Stated at
\* the three places where code of the page runs: the factory, each
\* callback, each listener of the event.
C23_StepsInOrder ==
  \A k \in 1..Len(stack) :
    LET f == stack[k] IN
    f.op = "upgradeElement" /\ f.pc \in {"factory", "callback", "upgraded"} =>
      LET T == f.classesToUpgrade[f.i]
          D == Descriptor(registeredComponents_, T)
      IN  /\ \A j \in 1..(f.i - 1) : CandidateDone(f, j)
          /\ \A j \in (f.i + 1)..Len(f.classesToUpgrade) : CandidateUntouched(f, j)
          /\ LastListed(dataUpgraded[f.element]) = Str(T)
          /\ f.pc = "factory" =>
               /\ InstancesOf(createdComponents_, f.element, T) = 0
               /\ expando[f.element][T] = 0
               /\ f.made = f.i - 1 /\ f.events = f.i - 1
          /\ f.pc = "callback" =>
               /\ createdComponents_[Len(createdComponents_)] =
                    [ id |-> f.instance, element_ |-> f.element,
                      mdlComponentConfigInternal_ |->
                        [ className |-> D.className, cssClass |-> D.cssClass,
                          widget |-> D.widget ] ]
               /\ f.called = SubSeq(D.callbacks, 1, f.j)
               /\ expando[f.element][T] = 0
               /\ f.made = f.i /\ f.events = f.i - 1
          /\ f.pc = "upgraded" =>
               /\ InstancesOf(createdComponents_, f.element, T) = 1
               /\ f.called = D.callbacks
               /\ (expando[f.element][T] = f.instance) <=> Truthy(D.widget)
               /\ f.made = f.i /\ f.events = f.i

\* The second of A's two upgrade callbacks, registered as cb2 then cb, is
\* running on e1: cb2 was invoked first, A's instance is in the ledger and
\* e1.A is not set yet.
C23_Witness ==
  /\ Len(stack) = 1
  /\ stack[1].op = "upgradeElement" /\ stack[1].pc = "callback"
  /\ stack[1].element = "e1"
  /\ stack[1].classesToUpgrade[stack[1].i] = "A"
  /\ Descriptor(registeredComponents_, "A").callbacks = <<"cb2", "cb">>
  /\ stack[1].called = <<"cb2", "cb">>
  /\ InstancesOf(createdComponents_, "e1", "A") = 1
  /\ expando["e1"]["A"] = 0

\* ---- C24
\* The names of the registered descriptors whose cssClass the element
\* carries and whose name its marker does not list.
Matching(element) ==
  { registeredComponents_[k].className : k \in
      { k \in DOMAIN registeredComponents_ :
          /\ registeredComponents_[k].cssClass \in classListOf[element]
          /\ ~ListsName(dataUpgraded[element],
                        registeredComponents_[k].className) } }

\* The names are all different and stand in the registry's order.
InRegistryOrder(names) ==
  \A a, b \in DOMAIN names :
    a < b => findRegisteredClass_(registeredComponents_, names[a])
               < findRegisteredClass_(registeredComponents_, names[b])

\* The candidates an upgradeElement call chose in the step that ran its
\* scan: none when the call has already returned.
Chosen ==
  IF /\ Len(stack') = Len(stack)
     /\ Top(stack').op = "upgradeElement" /\ Top(stack').pc = "factory"
    THEN Top(stack').classesToUpgrade
    ELSE <<>>

\* C24: upgradeElement(e) with no name takes as candidates exactly the
\* registered descriptors whose cssClass is in e's class list at scan time
\* and whose name is not in e's marker, each once and in the registry's
\* order; it applies them in that order, and when it returns it has applied
\* each exactly once and no other descriptor.
C24_ScanAppliesMatchingInRegistryOrder ==
  [][/\ (/\ UpgradingDone
         /\ ~Cancelled(Top(stack))
         /\ Top(stack).optJsClass = Undefined)
          => /\ SeqToSet(Chosen) = Matching(Top(stack).element)
             /\ InRegistryOrder(Chosen)
     /\ \A k \in 1..Len(stack') :
          stack'[k].op = "upgradeElement" /\ stack'[k].pc # "upgrading"
            => stack'[k].applied =
                 SubSeq(stack'[k].classesToUpgrade, 1, stack'[k].i)
     /\ (/\ UpgradedDone
         /\ Len(stack) = 1
         /\ Top(stack).optJsClass = Undefined
         /\ stack' = <<>>)
          => /\ ret'.outcome = "ok"
             /\ ret'.applied = SeqToSet(Top(stack).classesToUpgrade)
             /\ ret'.made = Len(Top(stack).classesToUpgrade)
             /\ ret'.events = Len(Top(stack).classesToUpgrade)
             /\ \A name \in ret'.applied :
                  InstancesOf(createdComponents_', Top(stack).element, name) = 1]_vars

\* upgradeElement(e1) with no name has returned having applied A and B,
\* the two registered descriptors whose cssClass e1 carries, once each.
C24_Witness ==
  /\ stack = <<>>
  /\ ret.op = "upgradeElement" /\ ret.outcome = "ok"
  /\ ret.element = "e1" /\ ret.optJsClass = Undefined
  /\ ret.applied = {"A", "B"}
  /\ ret.made = 2
  /\ Len(registeredComponents_) = 3
  /\ InstancesOf(createdComponents_, "e1", "A") = 1
  /\ InstancesOf(createdComponents_, "e1", "B") = 1
  /\ InstancesOf(createdComponents_, "e1", "C") = 0

\* ---- C25
RECURSIVE PreOrder(_)
\* The elements of the list and their descendants, each parent before its
\* children, as the page is now.
PreOrder(elements) ==
  IF Len(elements) = 0 THEN <<>>
  ELSE <<Head(elements)>> \o PreOrder(children[Head(elements)])
         \o PreOrder(Tail(elements))

\* The elements of the calls, in call order.
VisitedElements(visited) == [k \in DOMAIN visited |-> visited[k].element]

\* The upgradeElement call on top of the stack was made by upgradeElements.
CalledByUpgradeElements ==
  /\ Len(stack) >= 2
  /\ Top(stack).op = "upgradeElement"
  /\ stack[Len(stack) - 1].op = "upgradeElements"

\* The step went from the upgradeElement call on the parent into the
\* upgradeElement call on its first child.
Descended ==
  /\ Len(stack') = Len(stack) + 1
  /\ Top(stack').op = "upgradeElement" /\ Top(stack').pc = "upgrading"
  /\ Top(stack').element = Head(children[Top(stack).element])
  /\ Top(stack').optJsClass = Undefined
  /\ stack'[Len(stack)].elements = children[Top(stack).element]

\* C25: upgradeElements walks its input in pre-order: it calls
\* upgradeElement, with no type restriction, once on each element of the
\* input and of its descendants, on a parent before any of its children;
\* the children visited are those the parent has after its own upgrade;
\* the descent happens also when the parent's own upgrade was cancelled or
\* applied nothing.
C25_UpgradeElementsPreOrder ==
  [][/\ (/\ stack # <<>> /\ stack' = <<>>
         /\ stack[1].op = "upgradeElements"
         /\ ret'.op = "upgradeElements")
          => VisitedElements(ret'.visited) = PreOrder(stack[1].elements)
     /\ (/\ UpgradingDone
         /\ CalledByUpgradeElements
         /\ children[Top(stack).element] # <<>>
         /\ \/ Cancelled(Top(stack))
            \/ ClassesToUpgrade(registeredComponents_, Top(stack).element,
                                Undefined, dataUpgraded[Top(stack).element]) = <<>>)
          => Descended
     /\ \A k \in 1..Len(stack') :
          stack'[k].op = "upgradeElement" /\ k > 1
            /\ stack'[k - 1].op = "upgradeElements"
            => stack'[k].optJsClass = Undefined]_vars

\* upgradeElements(e1) has returned having called upgradeElement on e1 and
\* then on e2, a child that e1 did not have when its own upgrade began: the
\* factory of A added it.
C25_Witness ==
  /\ stack = <<>>
  /\ ret.op = "upgradeElements"
  /\ ret.visited = << [element |-> "e1", childrenBefore |-> 0],
                      [element |-> "e2", childrenBefore |-> 0] >>
  /\ children["e1"] = <<"e2">>
  /\ InstancesOf(createdComponents_, "e1", "A") = 1
  /\ InstancesOf(createdComponents_, "e2", "A") = 1

\* ---- C26
\* C26: after any sequence of handler operations, including upgrade calls
\* made re-entrantly from a factory, an upgrade callback or a
\* 'mdl-componentupgraded' listener, the ledger never holds two instances
\* with the same element and the same component name.
C26_NoTwoInstancesOfOneClassOnOneElement ==
  \A element \in Elements : \A name \in Names :
    InstancesOf(createdComponents_, element, name) <= 1

\* ---- C27
\* The component names of the ledger instances backed by the element.
LedgerNames(element) ==
  { createdComponents_[k].mdlComponentConfigInternal_.className :
      k \in { k \in DOMAIN createdComponents_ :
                createdComponents_[k].element_ = element } }

\* The non-empty names the element's marker lists.
MarkerNames(element) ==
  { name \in Names : ListsName(dataUpgraded[element], name) }

\* C27: whenever no handler operation is in progress, for every element
\* (all start without the attribute) the set of non-empty names in its
\* data-upgraded marker equals the set of component names of the ledger
\* instances backed by it.
C27_MarkerNamesAreLedgerNames ==
  stack = <<>> =>
    \A element \in Elements : MarkerNames(element) = LedgerNames(element)

\* ---- C28
\* The step dispatched 'mdl-componentdowngraded' from frame k of the stack.
DowngradedDispatched(k) ==
  /\ k <= Len(stack')
  /\ stack'[k].op = "downgradeElements"
  /\ stack'[k].pc = "downgraded"
  /\ \/ k > Len(stack)
     \/ stack[k].op # "downgradeElements"
     \/ stack[k].pc # "downgraded"
     \/ stack[k].k # stack'[k].k

\* C28: downgradeElements(n) removes from the ledger only instances whose
\* backing element is n and rewrites only n's marker, and each instance of
\* n gets exactly one 'mdl-componentdowngraded' event, also when a listener
\* of that event re-enters downgradeElements for n: every deconstruction
\* step takes out an instance that was in the ledger, and leaves the
\* instances and the markers of all other elements as they were.
C28_DowngradeTouchesOnlyItsNode ==
  [][\A k \in 1..Len(stack') :
       DowngradedDispatched(k) =>
         LET f == stack'[k]
             component == f.components[f.k]
         IN  /\ IndexOf(createdComponents_, component) # -1
             /\ IndexOf(createdComponents_', component) = -1
             /\ Len(createdComponents_') = Len(createdComponents_) - 1
             /\ \A e \in Elements \ {f.node} :
                  /\ ComponentsOf(createdComponents_', e)
                       = ComponentsOf(createdComponents_, e)
                  /\ dataUpgraded'[e] = dataUpgraded[e]]_vars

\* ---- C29
\* C29: in every state where no handler operation is in progress, for every
\* element e and name T, a back-reference e[T] that is set refers to an
\* instance that is in the ledger: a downgraded instance is no longer
\* retrievable from its element.
C29_BackReferenceIsInLedger ==
  stack = <<>> =>
    \A element \in Elements : \A name \in Names :
      expando[element][name] # 0 =>
        Live(createdComponents_, element, name, expando[element][name])

\* ---- C30
\* The notification is the displayed one: the snackbar is active, has the
\* active class and shows the notification's text.
Displayed(data) ==
  /\ snackbar.active_
  /\ snackbar.activeClass
  /\ snackbar.message_ = data
  /\ snackbar.textContent = data

\* The notifications stand in the order of their showSnackbar calls.
InCallOrder(list) == \A a, b \in DOMAIN list : a < b => list[a] < list[b]

\* C30: MaterialSnackbar shows one notification at a time.  A displayed
\* notification stays the displayed one until its own timeout fires or
\* hideSnackbar is called; the cleanup of an earlier notification never
\* clears, hides or replaces it; a notification shown while one is active
\* is queued, and notifications are displayed in the order of their
\* showSnackbar calls.
C30_OneNotificationAtATime ==
  [][/\ \A data \in 1..MaxShows :
          Displayed(data) =>
            \/ Displayed(data)'
            \/ HideSnackbar
            \/ TimeoutFires(data)
     /\ (ShowSnackbar /\ snackbar.active_) =>
          /\ snackbar'.queuedNotifications_ =
               Append(snackbar.queuedNotifications_, snackbar.shows + 1)
          /\ snackbar'.displayed = snackbar.displayed
     /\ InCallOrder(snackbar'.displayed \o snackbar'.queuedNotifications_)]_vars

====
